---------------------------- MODULE Spec2Model ----------------------------
(***************************************************************************)
(* A model of the Django-like repository layer:                            *)
(*   - QuerySet (src/repositories/queryset.py): the chainable handle that  *)
(*     keeps its own where / join / option / ordering structures and       *)
(*     compiles and executes statements on an AsyncSession;                *)
(*   - QueryBuilder (src/repositories/builder.py): the accumulator with    *)
(*     the build_*_stmt compilers.                                         *)
(* Python objects that are shared by reference (dicts, sets) live in heaps *)
(* indexed by the QuerySet whose __init__ allocated them.  A dotted path   *)
(* "a__b__c" is the sequence <<"a","b","c">> of its segments.  A nested    *)
(* dict is the set of the key paths of its dict-valued entries.            *)
(***************************************************************************)
EXTENDS Integers, Sequences, FiniteSets, TLC

\* ------------------------------------------------------------------ bounds
MaxQS == 3          \* QuerySet objects alive in one run
MaxOrderings == 2   \* ordering expressions held by one ordering set
MaxQB == 2          \* QueryBuilder objects alive in one run
MaxOrderBy == 3     \* keys held by one QueryBuilder._order_by
MaxCalls == 3       \* QueryBuilder calls before the compilation that ends a run
MaxRows == 5        \* rows and pending entities of the root table under create
MaxSegments == 3    \* segments of a filter name under the lookup selection
MaxRequests == 3    \* requests served one after another through get_session

\* ---------------------------------------------------------------- metadata
\* src/models/help.py: the declared entity types are Section, Subsection,
\* PublicationStatus, Widget and ArticleContent
Columns(m) ==
  CASE m = "PublicationStatus" -> {"id", "code", "name"}
    [] m = "Section"           -> {"id", "name", "status_id"}
    [] m = "Subsection"        -> {"id", "name", "section_id", "status_id"}
    [] m = "Widget"            -> {"id", "name", "code"}
    [] m = "ArticleContent"    -> {"id", "subtitle", "text", "subsection_id", "widget_id"}

\* relationship name -> target entity (inspect(model).relationships)
Relationships(m) ==
  CASE m = "PublicationStatus" -> [r \in {"sections", "subsections"} |->
                                     IF r = "sections" THEN "Section" ELSE "Subsection"]
    [] m = "Section"           -> [r \in {"status", "subsections"} |->
                                     IF r = "status" THEN "PublicationStatus" ELSE "Subsection"]
    [] m = "Subsection"        -> [r \in {"section", "status", "article_contents"} |->
                                     CASE r = "section" -> "Section"
                                       [] r = "status" -> "PublicationStatus"
                                       [] r = "article_contents" -> "ArticleContent"]
    [] m = "Widget"            -> [r \in {"article_contents"} |-> "ArticleContent"]
    [] m = "ArticleContent"    -> [r \in {"subsection", "widget"} |->
                                     IF r = "subsection" THEN "Subsection" ELSE "Widget"]

\* the root entity of every QuerySet / QueryBuilder of the model
RootModel == "Section"

\* repositories.lookups.lookups: the registry of lookup names ('exact' is the
\* key filter looks up for a dotted name without lookup)
Lookups == {"exact", "in", "icontains", "gt", "isnull", "year"}

\* ------------------------------------------------------------- exceptions
\* The outcome of a call is "ok" when it returns and otherwise the name of the
\* exception class it raises ("TypeError", "ColumnNotFoundError", ...).

\* ------------------------------------------------------------------ state
VARIABLES
  qsets,      \* the QuerySet objects created so far, in creation order
  whereH,     \* heap of _where dicts: ref -> (filter name -> condition)
  joinsH,     \* heap of _joins dicts: ref -> [nodes, outer]
  optionsH,   \* heap of _options dicts: ref -> set of key paths
  orderH,     \* heap of _ordering_fields sets: ref -> (expression -> count)
  db,         \* the tables as the session sees them
  session,    \* the AsyncSession: pending and flushed new entities
  last        \* what the last call did and returned

qsVars == <<qsets, whereH, joinsH, optionsH, orderH, db, session, last>>

\* QuerySet.__init__ (reached through BaseRepository.objects): every attribute
\* fresh and empty, dicts allocated at `ref`
NewQuerySet(ref) ==
  [where |-> ref, joins |-> ref, options |-> ref, ordering |-> ref,
   limit |-> {}, offset |-> {}, returning |-> <<>>, execution_options |-> {}]

\* QuerySet._clone: a new object whose dicts and sets are the receiver's own
\* (assignment of references); _execution_options is not carried over
Clone(q) ==
  [where |-> q.where, joins |-> q.joins, options |-> q.options, ordering |-> q.ordering,
   limit |-> q.limit, offset |-> q.offset, returning |-> q.returning,
   execution_options |-> {}]

\* dict keys: a string key s is <<"str", s>>, the class attribute of a
\* relationship (relationships[attr].class_attribute, e.g. Section.subsections)
\* is <<model, attr>>; None where a column name is expected is "<None>"

\* ------------------------------------------------------- QuerySet.filter

\* a compiled predicate op(column, value): the column of `model`, the lookup,
\* and the value (a string, or for the `in` lookup a set of ids)
Cond(model, column, op, value, ids) ==
  [model |-> model, column |-> column, op |-> op, value |-> value, ids |-> ids]

\* lines 100-113: the lookup of a dotted filter name and the attrs left to walk
FilterLookup(attrs) ==
  LET n == Len(attrs) IN
  IF attrs[n] = attrs[n - 1] THEN attrs[n]
  ELSE IF attrs[n] \in Lookups THEN attrs[n] ELSE "exact"

FilterAttrs(attrs) ==
  LET n == Len(attrs) IN
  IF attrs[n] = attrs[n - 1] \/ attrs[n] \in Lookups THEN SubSeq(attrs, 1, n - 1) ELSE attrs

\* lines 115-149: the walk over the attrs of one filter name.  `path` is the
\* key path of the dict `joins` points at; setdefault writes into the tree
\* before the checks of the same iteration run
RECURSIVE FilterWalk(_, _, _, _, _, _)
FilterWalk(attrs, idx, model, path, column_name, nodes) ==
  IF idx > Len(attrs)
  THEN [err |-> "ok", model |-> model, column_name |-> column_name, nodes |-> nodes]
  ELSE
    LET attr == attrs[idx] IN
    IF attr \in DOMAIN Relationships(model)
    THEN LET children == Append(path, <<"str", "children">>)
             node == Append(children, <<"str", attr>>)
             grown == nodes \cup {children, node}
         IN IF idx = Len(attrs)
            THEN [err |-> "ColumnNotFoundError", model |-> model,
                  column_name |-> column_name, nodes |-> grown]
            ELSE FilterWalk(attrs, idx + 1, Relationships(model)[attr], node,
                            column_name, grown)
    ELSE IF attr \notin Columns(model)
    THEN [err |-> "ColumnNotFoundError", model |-> model,
          column_name |-> column_name, nodes |-> nodes]
    ELSE IF column_name # "<None>"
    THEN [err |-> "ValueError", model |-> model, column_name |-> column_name, nodes |-> nodes]
    ELSE FilterWalk(attrs, idx + 1, model, path, attr, nodes)

\* d.setdefault(k, v) in the place of the assignment: a present key keeps
\* its value
DictSetdefault(d, k, v) ==
  [x \in DOMAIN d \cup {k} |-> IF x = k /\ k \notin DOMAIN d THEN v ELSE d[x]]

\* dict assignment d[k] = v
DictSet(d, k, v) == [x \in DOMAIN d \cup {k} |-> IF x = k THEN v ELSE d[x]]

\* lines 91-151: one keyword argument of filter, applied to the where dict and
\* the join nodes obj._where / obj._joins point at; `warned` are the names
\* the warning of lines 92-93 was logged for
FilterOne(st0, kw) ==
  IF st0.err # "ok" THEN st0
  ELSE
    LET st == IF kw.name \in DOMAIN st0.where
              THEN [st0 EXCEPT !.warned = @ \cup {kw.name}] ELSE st0
    IN
    IF Len(kw.name) = 1
    THEN \* no LOOKUP_SEP: column_name, op = filter_name, eq
         IF kw.name[1] \in Columns(RootModel)
         THEN [st EXCEPT !.where = DictSet(st.where, kw.name,
                                     Cond(RootModel, kw.name[1], "exact", kw.value, kw.ids))]
         ELSE [st EXCEPT !.err = "ColumnNotFoundError"]
    ELSE
      LET lookup == FilterLookup(kw.name)
          attrs == FilterAttrs(kw.name)
      IN IF lookup \notin Lookups THEN [st EXCEPT !.err = "ValueError"]
         ELSE LET w == FilterWalk(attrs, 1, RootModel, <<>>, "<None>", st.nodes) IN
              IF w.err # "ok" THEN [st EXCEPT !.err = w.err, !.nodes = w.nodes]
              ELSE IF w.column_name \notin Columns(w.model)
              THEN [st EXCEPT !.err = "ColumnNotFoundError", !.nodes = w.nodes]
              ELSE [st EXCEPT !.nodes = w.nodes,
                              !.where = DictSet(st.where, kw.name,
                                          Cond(w.model, w.column_name, lookup,
                                               kw.value, kw.ids))]

\* the loop over kwargs.items()
RECURSIVE FilterLoop(_, _, _)
FilterLoop(st, kwargs, i) ==
  IF i > Len(kwargs) THEN st ELSE FilterLoop(FilterOne(st, kwargs[i]), kwargs, i + 1)

\* QuerySet.filter on the structures of receiver q: what the shared where dict
\* and join tree hold afterwards, and whether the call raised
FilterResult(q, kwargs) ==
  FilterLoop([err |-> "ok", where |-> whereH[q.where], nodes |-> joinsH[q.joins].nodes,
              warned |-> {}], kwargs, 1)

\* ------------------------------------------------------ QuerySet.options
\* lines 196-201: the walk over one option field; relationships[attr] raises
\* KeyError for a name that is no relationship.  The option tree and the join
\* tree are both keyed by the relationship's class attribute
RECURSIVE OptionsWalk(_, _, _, _, _, _)
OptionsWalk(attrs, idx, model, path, opts, nodes) ==
  IF idx > Len(attrs) THEN [err |-> "ok", opts |-> opts, nodes |-> nodes]
  ELSE
    LET attr == attrs[idx] IN
    IF attr \notin DOMAIN Relationships(model)
    THEN [err |-> "KeyError", opts |-> opts, nodes |-> nodes]
    ELSE LET node == Append(path, <<model, attr>>) IN
         OptionsWalk(attrs, idx + 1, Relationships(model)[attr], node,
                     opts \cup {node}, nodes \cup {node})

RECURSIVE OptionsLoop(_, _, _)
OptionsLoop(st, fields, i) ==
  IF i > Len(fields) \/ st.err # "ok" THEN st
  ELSE OptionsLoop(OptionsWalk(fields[i], 1, RootModel, <<>>, st.opts, st.nodes),
                   fields, i + 1)

\* ----------------------------------------------------- QuerySet.order_by
\* an ordering expression column.asc() / column.desc()
OrderExpr(model, column, desc) == [model |-> model, column |-> column, desc |-> desc]

\* lines 211-218: the walk over one ordering field (its sign stripped);
\* getattr(model, attr) raises AttributeError for an unknown name
RECURSIVE OrderWalk(_, _, _, _, _, _)
OrderWalk(attrs, idx, model, path, column, nodes) ==
  IF idx > Len(attrs) THEN [err |-> "ok", column |-> column, nodes |-> nodes]
  ELSE
    LET attr == attrs[idx] IN
    IF attr \in DOMAIN Relationships(model)
    THEN LET node == Append(path, <<model, attr>>) IN
         OrderWalk(attrs, idx + 1, Relationships(model)[attr], node, column,
                   nodes \cup {node})
    ELSE IF attr \in Columns(model)
    THEN OrderWalk(attrs, idx + 1, model, path, <<model, attr>>, nodes)
    ELSE [err |-> "AttributeError", column |-> column, nodes |-> nodes]

\* set.add of a new expression object: expressions hash by identity, so the
\* set holds one entry per call (a count per expression value)
BagAdd(b, e) == [x \in DOMAIN b \cup {e} |-> IF x = e
                                              THEN (IF e \in DOMAIN b THEN b[e] + 1 ELSE 1)
                                              ELSE b[x]]

RECURSIVE BagSizeOf(_, _)
BagSizeOf(b, S) ==
  IF S = {} THEN 0
  ELSE LET e == CHOOSE x \in S : TRUE IN b[e] + BagSizeOf(b, S \ {e})

\* lines 207-220: one ordering token [sign, path]
OrderOne(st, tok) ==
  IF st.err # "ok" THEN st
  ELSE LET w == OrderWalk(tok.path, 1, RootModel, <<>>, <<>>, st.nodes) IN
       IF w.err # "ok" THEN [st EXCEPT !.err = w.err, !.nodes = w.nodes]
       ELSE IF w.column = <<>>
       THEN \* column is None: None.asc() raises AttributeError
            [st EXCEPT !.err = "AttributeError", !.nodes = w.nodes]
       ELSE [st EXCEPT !.nodes = w.nodes,
                       !.ordering = BagAdd(st.ordering,
                                           OrderExpr(w.column[1], w.column[2], tok.sign = "-"))]

RECURSIVE OrderLoop(_, _, _)
OrderLoop(st, fields, i) ==
  IF i > Len(fields) THEN st ELSE OrderLoop(OrderOne(st, fields[i]), fields, i + 1)

\* -------------------------------------------------------- QuerySet._join
\* lines 290-297: the walk over one join path; _get_relationship(..., True)
\* raises ValueError for a name that is no relationship; the node of the last
\* attr gets the isouter flag
RECURSIVE JoinWalk(_, _, _, _, _)
JoinWalk(attrs, idx, model, path, nodes) ==
  IF idx > Len(attrs) THEN [err |-> "ok", node |-> path, nodes |-> nodes]
  ELSE
    LET attr == attrs[idx] IN
    IF attr \notin DOMAIN Relationships(model)
    THEN [err |-> "ValueError", node |-> path, nodes |-> nodes]
    ELSE LET children == Append(path, <<"str", "children">>)
             node == Append(children, <<"str", attr>>)
         IN JoinWalk(attrs, idx + 1, Relationships(model)[attr], node,
                     nodes \cup {children, node})

JoinOne(st, join, isouter) ==
  IF st.err # "ok" THEN st
  ELSE LET w == JoinWalk(join, 1, RootModel, <<>>, st.nodes) IN
       IF w.err # "ok" THEN [st EXCEPT !.err = w.err, !.nodes = w.nodes]
       ELSE [st EXCEPT !.nodes = w.nodes,
                       !.outer = IF isouter THEN st.outer \cup {w.node}
                                 ELSE st.outer \ {w.node}]

RECURSIVE JoinLoop(_, _, _, _)
JoinLoop(st, joins, isouter, i) ==
  IF i > Len(joins) THEN st ELSE JoinLoop(JoinOne(st, joins[i], isouter), joins, isouter, i + 1)

\* ---------------------------------------------------- QuerySet.returning
\* lines 484-492: cols together with return_model raise ValueError; a name
\* that is no attribute of the model raises AttributeError
ReturningResult(q, cols, return_model) ==
  IF cols # <<>> /\ return_model THEN [err |-> "ValueError", returning |-> q.returning]
  ELSE IF \E i \in 1..Len(cols) : cols[i] \notin Columns(RootModel)
  THEN [err |-> "AttributeError", returning |-> q.returning]
  ELSE IF cols # <<>> THEN [err |-> "ok", returning |-> cols]
  ELSE IF return_model THEN [err |-> "ok", returning |-> <<RootModel>>]
  ELSE [err |-> "ok", returning |-> q.returning]

\* ------------------------------------------------------------ the tables
\* relationship -> (column of the parent, column of the target) of its ON
\* clause, from the ForeignKey declarations of src/models/help.py
RelOn(model, rel) ==
  CASE model = "Section" /\ rel = "subsections"           -> <<"id", "section_id">>
    [] model = "Section" /\ rel = "status"                -> <<"status_id", "id">>
    [] model = "Subsection" /\ rel = "section"            -> <<"section_id", "id">>
    [] model = "Subsection" /\ rel = "status"             -> <<"status_id", "id">>
    [] model = "Subsection" /\ rel = "article_contents"   -> <<"id", "subsection_id">>
    [] model = "PublicationStatus" /\ rel = "sections"    -> <<"id", "status_id">>
    [] model = "PublicationStatus" /\ rel = "subsections" -> <<"id", "status_id">>
    [] model = "Widget" /\ rel = "article_contents"       -> <<"id", "widget_id">>
    [] model = "ArticleContent" /\ rel = "subsection"     -> <<"subsection_id", "id">>
    [] model = "ArticleContent" /\ rel = "widget"         -> <<"widget_id", "id">>

\* SQL NULL in place of a row (the right side of an outer join without match)

\* the rows of `rel`'s target that the ON clause matches to `row`
Related(d, model, rel, row) ==
  IF "null" \in DOMAIN row THEN {}
  ELSE {t \in d[Relationships(model)[rel]] :
          t[RelOn(model, rel)[2]] = row[RelOn(model, rel)[1]]}

\* columns holding integers; the others hold strings
IntColumns == {"id", "status_id", "section_id", "subsection_id", "widget_id"}

\* the lookup functions of the registry on a row's column ("exact" is
\* operators.eq, the comparison of a field without lookup).  The strings
\* icontains is used on are single letters, for which "contains" is equality
CondHolds(c, row) ==
  LET \* str.lower() on the strings the tables hold
      Lower(v) == CASE v = "X" -> "x" [] v = "A" -> "a" [] OTHER -> v IN
  IF "null" \in DOMAIN row THEN FALSE
  ELSE CASE c.op = "exact" -> IF c.column \in IntColumns THEN row[c.column] \in c.ids
                              ELSE row[c.column] \in c.value
         [] c.op = "in" -> IF c.column \in IntColumns THEN row[c.column] \in c.ids
                           ELSE row[c.column] \in c.value
         [] c.op = "icontains" -> c.column \notin IntColumns
                                  /\ \E v \in c.value : Lower(row[c.column]) = Lower(v)
         [] OTHER -> FALSE

\* ------------------------------------------------- statements and results
\* the entity a relationship path leads to
RECURSIVE ModelAt(_, _)
ModelAt(model, rels) ==
  IF rels = <<>> THEN model ELSE ModelAt(Relationships(model)[Head(rels)], Tail(rels))

\* a joined row: relationship path -> row (<<>> is the root entity's row)
Bind(b, path, row) == [x \in DOMAIN b \cup {path} |-> IF x = path THEN row ELSE b[x]]

\* stmt.join(...) for every join of J, parents before children: the rows of the
\* FROM clause.  An inner join drops a row without match, an outer join keeps
\* it with NULLs
RECURSIVE Joined(_, _, _)
Joined(d, B, J) ==
  IF J = {} THEN B
  ELSE LET j == CHOOSE x \in J : \A y \in J : Len(x.path) <= Len(y.path)
           parent == SubSeq(j.path, 1, Len(j.path) - 1)
           rel == j.path[Len(j.path)]
           ext(b) == LET rs == Related(d, ModelAt(RootModel, parent), rel, b[parent]) IN
                     IF rs = {} THEN (IF j.isouter THEN {Bind(b, j.path, [null |-> TRUE])} ELSE {})
                     ELSE {Bind(b, j.path, r) : r \in rs}
       IN Joined(d, UNION {ext(b) : b \in B}, J \ {j})

\* the rows a select with these joins and conditions produces; stmt.where(*conds)
\* evaluates each condition on the joined table of its column's entity
SelectRows(d, stmt) ==
  {b \in Joined(d, {Bind(<<>>, <<>>, r) : r \in d[RootModel]}, stmt.joins) :
     \A c \in stmt.where :
        \E p \in DOMAIN b : ModelAt(RootModel, p) = c.model /\ CondHolds(c, b[p])}

\* the distinct root primary keys among rows
RootIds(B) == {b[<<>>].id : b \in B}

\* the root ids of rows, one per row, in primary-key order
RECURSIVE RootIdSeq(_, _)
RootIdSeq(B, ids) ==
  IF ids = {} THEN <<>>
  ELSE LET m == CHOOSE x \in ids : \A y \in ids : x <= y
           n == Cardinality({b \in B : b[<<>>].id = m})
       IN [i \in 1..n |-> m] \o RootIdSeq(B, ids \ {m})

\* the same table used twice without alias in one FROM clause is rejected,
\* and so is an ORDER BY column of a table that is not in the FROM clause: the
\* FROM clause holds the root, the joined tables and the tables whose columns
\* contains_eager adds to the select
TablesOnce(stmt) ==
  /\ \A j1, j2 \in stmt.joins :
       /\ ModelAt(RootModel, j1.path) # RootModel
       /\ (j1.path # j2.path => ModelAt(RootModel, j1.path) # ModelAt(RootModel, j2.path))
  /\ \A e \in DOMAIN stmt.order :
       e.model \in {RootModel} \cup {ModelAt(RootModel, j.path) : j \in stmt.joins}
                   \cup UNION {{Relationships(o[i].relation[1])[o[i].relation[2]] :
                                  i \in {i \in DOMAIN o : o[i].loader = "contains_eager"}} :
                               o \in stmt.options}

\* ------------------------------------------- QuerySet statement compilers
\* the structures a QuerySet object reads through its references
View(q) ==
  [where |-> whereH[q.where], nodes |-> joinsH[q.joins].nodes, outer |-> joinsH[q.joins].outer,
   options |-> optionsH[q.options], ordering |-> orderH[q.ordering],
   limit |-> q.limit, offset |-> q.offset, returning |-> q.returning]

\* Python truth value of an int-or-None attribute ({} is None)
Truthy(x) == x # {} /\ x # {0}

\* the key paths of the join tree that _apply_joins walks: the dicts under
\* "children", as [path of relationship names, isouter]
ChildJoins(nodes, outer) ==
  {[path |-> [i \in 1..(Len(p) \div 2) |-> p[2 * i][2]], isouter |-> p \in outer] :
     p \in {n \in nodes : Len(n) >= 2 /\ Len(n) % 2 = 0 /\ n[1] = <<"str", "children">>}}

\* _apply_joins(self, stmt, model, joins), called with the positional
\* arguments `args`: a call that leaves out `joins` raises TypeError
ApplyJoins(stmt, args) ==
  IF Len(args) < 2 THEN [err |-> "TypeError", stmt |-> stmt]
  ELSE [err |-> "ok", stmt |-> [stmt EXCEPT !.joins = ChildJoins(args[2].nodes, args[2].outer)]]

\* _apply_where
ApplyWhere(stmt, v) == [stmt EXCEPT !.where = {v.where[k] : k \in DOMAIN v.where}]

\* _apply_order
ApplyOrder(stmt, v) == [stmt EXCEPT !.order = v.ordering]

\* _flat_options: the leaves of the option tree, each as its chain of keys
FlatOptions(opts) == {p \in opts : ~\E x \in opts : Len(x) > Len(p) /\ SubSeq(x, 1, Len(p)) = p}

\* _apply_options: per option chain and relation, contains_eager when the
\* relation is a key of the join dict at that level, else joinedload
ApplyOptions(stmt, v) ==
  [stmt EXCEPT !.options =
     {[i \in 1..Len(p) |-> [relation |-> p[i],
                            loader |-> IF SubSeq(p, 1, i) \in v.nodes
                                       THEN "contains_eager" ELSE "joinedload"]] :
        p \in FlatOptions(v.options)}]

\* select(...) before anything is applied
EmptyStmt(kind) ==
  [kind |-> kind, joins |-> {}, where |-> {}, order |-> <<>>, options |-> {},
   limit |-> {}, offset |-> {}, returning |-> <<>>, values |-> <<>>]

\* the `query` property (lines 435-451)
Query(v) ==
  LET j == ApplyJoins(EmptyStmt("select"), <<RootModel, v>>)
      stmt == ApplyOrder(ApplyWhere(ApplyOptions(j.stmt, v), v), v)
  IN IF Truthy(v.limit) \/ Truthy(v.offset)
     THEN \* line 442: self._apply_joins(subquery, self._joins)
          LET sub == ApplyJoins(EmptyStmt("select_distinct_pk"), <<v>>) IN
          IF sub.err # "ok" THEN [err |-> sub.err, stmt |-> stmt]
          ELSE [err |-> "ok",
                stmt |-> [stmt EXCEPT !.kind = "select_pk_in_subquery",
                                      !.limit = v.limit, !.offset = v.offset]]
     ELSE [err |-> "ok", stmt |-> stmt]

\* _get_count_stmt (lines 315-319)
GetCountStmt(v) ==
  LET j == ApplyJoins(EmptyStmt("count_distinct_pk"), <<v>>) IN
  IF j.err # "ok" THEN j ELSE [err |-> "ok", stmt |-> ApplyWhere(j.stmt, v)]

\* get_delete_stmt (lines 453-460)
GetDeleteStmt(v) ==
  LET j == ApplyJoins(EmptyStmt("delete_pk_in"), <<v>>) IN
  IF j.err # "ok" THEN j
  ELSE [err |-> "ok", stmt |-> [ApplyWhere(j.stmt, v) EXCEPT !.returning = v.returning]]

\* get_update_stmt (lines 466-477)
GetUpdateStmt(v, values) ==
  LET j == ApplyJoins(EmptyStmt("update_pk_in"), <<v>>) IN
  IF j.err # "ok" THEN j
  ELSE [err |-> "ok", stmt |-> [ApplyWhere(j.stmt, v) EXCEPT !.returning = v.returning,
                                                              !.values = values]]

\* ------------------------------------------------------------ the session
\* LIMIT / OFFSET on a sequence of rows ({} is "not set")
Page(rows, limit, offset) ==
  LET o == IF offset = {} THEN 0 ELSE CHOOSE x \in offset : TRUE
      rest == IF o >= Len(rows) THEN <<>> ELSE SubSeq(rows, o + 1, Len(rows))
      l == IF limit = {} THEN Len(rest) ELSE CHOOSE x \in limit : TRUE
  IN IF l >= Len(rest) THEN rest ELSE SubSeq(rest, 1, IF l < 0 THEN 0 ELSE l)

\* session.scalars(stmt) / session.scalar(stmt) / session.execute(stmt) of a
\* compiled statement: the root entities of its rows, one per row
Scalars(d, stmt) ==
  IF ~TablesOnce(stmt) THEN [err |-> "ProgrammingError", rows |-> <<>>]
  ELSE LET B == SelectRows(d, stmt)
           page == Page(RootIdSeq({b \in B : TRUE}, RootIds(B)), stmt.limit, stmt.offset)
           sub == {page[i] : i \in 1..Len(page)}
           K == IF stmt.kind = "select_pk_in_subquery"
                THEN {b \in B : b[<<>>].id \in sub} ELSE B
       IN [err |-> "ok", rows |-> RootIdSeq(K, RootIds(K))]

\* session.scalar(count statement): count(distinct pk)
ScalarCount(d, stmt) ==
  IF ~TablesOnce(stmt) THEN [err |-> "ProgrammingError", count |-> 0]
  ELSE [err |-> "ok", count |-> Cardinality(RootIds(SelectRows(d, stmt)))]

\* the rows of the root table an UPDATE / DELETE ... WHERE pk IN (subquery) hits
Targeted(d, stmt) == {r \in d[RootModel] : r.id \in RootIds(SelectRows(d, stmt))}

\* session.execute(update statement) with values {column: value}
ExecUpdate(d, stmt) ==
  [d EXCEPT ![RootModel] =
     {IF r \in Targeted(d, stmt)
      THEN [c \in DOMAIN r |-> IF c \in DOMAIN stmt.values THEN stmt.values[c] ELSE r[c]]
      ELSE r : r \in @}]

\* ------------------------------------------------ QuerySet terminal calls
\* all() (lines 255-257)
AllOf(d, v) ==
  LET c == Query(v) IN
  IF c.err # "ok" THEN [err |-> c.err, rows |-> <<>>, stmts |-> 0]
  ELSE LET r == Scalars(d, c.stmt) IN [err |-> r.err, rows |-> r.rows, stmts |-> 1]

\* first() (lines 259-262): the query of a clone with _limit = 1
FirstOf(d, v) ==
  LET c == Query([v EXCEPT !.limit = {1}]) IN
  IF c.err # "ok" THEN [err |-> c.err, rows |-> <<>>, stmts |-> 0]
  ELSE LET r == Scalars(d, c.stmt) IN
       [err |-> r.err, rows |-> SubSeq(r.rows, 1, IF Len(r.rows) > 0 THEN 1 ELSE 0),
        stmts |-> 1]

\* count() (lines 321-324)
CountOf(d, v) ==
  LET c == GetCountStmt(v) IN
  IF c.err # "ok" THEN [err |-> c.err, count |-> 0, stmts |-> 0]
  ELSE LET r == ScalarCount(d, c.stmt) IN [err |-> r.err, count |-> r.count, stmts |-> 1]

\* get_one_or_raise(exc) (lines 326-336), `n` being what `await self.count()`
\* gave
GetOneOrRaiseAfterCount(d, v, exc, n) ==
  IF n.err # "ok" THEN [err |-> n.err, rows |-> <<>>, stmts |-> n.stmts]
  ELSE IF n.count = 0 THEN [err |-> exc, rows |-> <<>>, stmts |-> n.stmts]
  ELSE IF n.count > 1 THEN [err |-> "ValueError", rows |-> <<>>, stmts |-> n.stmts]
  ELSE [FirstOf(d, v) EXCEPT !.stmts = @ + n.stmts]

GetOneOrRaiseOf(d, v, exc) == GetOneOrRaiseAfterCount(d, v, exc, CountOf(d, v))

\* get_one_or_none() (lines 338-343), `n` being what `await self.count()` gave
GetOneOrNoneAfterCount(d, v, n) ==
  IF n.err # "ok" THEN [err |-> n.err, rows |-> <<>>, stmts |-> n.stmts]
  ELSE IF n.count > 1 THEN [err |-> "ValueError", rows |-> <<>>, stmts |-> n.stmts]
  ELSE [FirstOf(d, v) EXCEPT !.stmts = @ + n.stmts]

GetOneOrNoneOf(d, v) == GetOneOrNoneAfterCount(d, v, CountOf(d, v))

\* the keyword arguments of a call as a dict {key: value}
KwDict(kwargs) == {[key |-> kwargs[i].name, value |-> kwargs[i].value, ids |-> kwargs[i].ids] :
                     i \in 1..Len(kwargs)}

\* {**kwargs, **defaults} (line 354): every key of kwargs is kept
CreateParams(kwargs, defaults) ==
  {p \in KwDict(kwargs) : ~\E x \in KwDict(defaults) : x.key = p.key} \cup KwDict(defaults)

\* Model(**params): the declarative constructor accepts only attribute names
ValidParams(params) ==
  \A p \in params : Len(p.key) = 1
                    /\ p.key[1] \in Columns(RootModel) \cup DOMAIN Relationships(RootModel)

\* session.add(instance); session.flush([instance]): the row is inserted with
\* the next primary key
Flushed(d, params) ==
  LET ids == {r.id : r \in d[RootModel]}
      next == IF ids = {} THEN 1 ELSE 1 + CHOOSE x \in ids : \A y \in ids : y <= x
      given(c) == \E p \in params : p.key = <<c>>
      val(c) == LET p == CHOOSE p \in params : p.key = <<c>> IN
                IF c \in IntColumns THEN CHOOSE x \in p.ids : TRUE
                ELSE CHOOSE x \in p.value : TRUE
  IN [d EXCEPT ![RootModel] = @ \cup
        {[c \in Columns(RootModel) |->
            IF c = "id" THEN next
            ELSE IF given(c) THEN val(c)
            ELSE IF c \in IntColumns THEN 0 ELSE ""]}]

\* the except branch of get_or_create (lines 353-358): construct, add, flush
CreateFrom(d, params, stmts) ==
  IF ~ValidParams(params)
  THEN [err |-> "TypeError", rows |-> <<>>, created |-> FALSE, db |-> d,
        stmts |-> stmts, flushes |-> 0]
  ELSE [err |-> "ok",
        rows |-> <<(CHOOSE r \in Flushed(d, params)[RootModel] :
                      r \notin d[RootModel]).id>>,
        created |-> TRUE, db |-> Flushed(d, params), stmts |-> stmts, flushes |-> 1]

\* get_or_create (lines 349-358), `g` being what get_one_or_raise gave or raised
GetOrCreateAfterGet(d, g, defaults, kwargs) ==
  IF g.err = "ok"
  THEN [err |-> "ok", rows |-> g.rows, created |-> FALSE, db |-> d,
        stmts |-> g.stmts, flushes |-> 0]
  ELSE IF g.err = "ObjectNotFoundError"
  THEN CreateFrom(d, CreateParams(kwargs, defaults), g.stmts)
  ELSE [err |-> g.err, rows |-> <<>>, created |-> FALSE, db |-> d,
        stmts |-> g.stmts, flushes |-> 0]

\* get_or_create(defaults, **kwargs) (lines 345-358), after obj.filter(**kwargs)
\* left the structures `v` and the error `ferr`
GetOrCreateOf(d, v, ferr, defaults, kwargs) ==
  IF ferr # "ok"
  THEN [err |-> ferr, rows |-> <<>>, created |-> FALSE, db |-> d, stmts |-> 0, flushes |-> 0]
  ELSE GetOrCreateAfterGet(d, GetOneOrRaiseOf(d, v, "ObjectNotFoundError"), defaults, kwargs)

\* update_or_create(defaults, create_defaults, **kwargs) (lines 360-371).
\* Base.update(**values) (src/models/base.py) is setattr on the loaded entity:
\* the change stays pending in the session until a flush
UpdateOrCreateAfterGet(ses, g, defaults) ==
  IF g.err # "ok" \/ g.created THEN g @@ [session |-> ses]
  ELSE g @@ [session |-> [ses EXCEPT !.dirty = @ \cup {[id |-> g.rows[1],
                                                        values |-> KwDict(defaults)]}]]

UpdateOrCreateOf(d, ses, v, ferr, defaults, create_defaults, kwargs) ==
  UpdateOrCreateAfterGet(ses, GetOrCreateOf(d, v, ferr, create_defaults, kwargs), defaults)

\* the mapping {getattr(obj, field_name): obj for obj in instances}: a later
\* instance replaces an earlier one with the same key
BulkMapping(d, rows, field_name) ==
  LET row(id) == CHOOSE r \in d[RootModel] : r.id = id
      keyAt(i) == row(rows[i])[field_name]
  IN {<<keyAt(i), rows[i]>> : i \in {i \in 1..Len(rows) :
                                       ~\E j \in (i + 1)..Len(rows) : keyAt(j) = keyAt(i)}}

\* ----------------------------------------------------------------- inputs
\* one keyword argument name=value of filter / get_or_create: the dotted name
\* as a path, the value as the set of strings and the set of integers it holds
Kw(name, value, ids) == [name |-> name, value |-> value, ids |-> ids]

\* an ordering token of order_by: "-name" is Tok("-", <<"name">>)
Tok(sign, path) == [sign |-> sign, path |-> path]

\* the tables when the session starts: section 1 has two subsections,
\* section 2 one, section 3 none
InitDb ==
  [m \in {"Section", "Subsection", "PublicationStatus", "Widget", "ArticleContent"} |->
     CASE m = "Section" -> {[id |-> 1, name |-> "X", status_id |-> 1],
                            [id |-> 2, name |-> "X", status_id |-> 2],
                            [id |-> 3, name |-> "Y", status_id |-> 1]}
       [] m = "Subsection" -> {[id |-> 1, name |-> "a", section_id |-> 1, status_id |-> 1],
                               [id |-> 2, name |-> "a", section_id |-> 1, status_id |-> 2],
                               [id |-> 3, name |-> "b", section_id |-> 2, status_id |-> 1]}
       [] m = "PublicationStatus" -> {[id |-> 1, code |-> "published", name |-> "P"],
                                      [id |-> 2, code |-> "draft", name |-> "D"]}
       [] OTHER -> {}]

\* ------------------------------------------------------ QuerySet actions
NoLast ==
  [op |-> "none", recv |-> 0, err |-> "ok", rows |-> <<>>, mapping |-> {}, count |-> 0,
   created |-> FALSE, stmts |-> 0, flushes |-> 0, new |-> 0, arg |-> <<>>, warned |-> {},
   calls |-> <<>>]

QsInit ==
  /\ qsets = <<NewQuerySet(1)>>
  /\ whereH = [r \in 1..MaxQS |-> <<>>]
  /\ joinsH = [r \in 1..MaxQS |-> [nodes |-> {}, outer |-> {}]]
  /\ optionsH = [r \in 1..MaxQS |-> {}]
  /\ orderH = [r \in 1..MaxQS |-> <<>>]
  /\ db = InitDb
  /\ session = [new |-> {}, dirty |-> {}]
  /\ last = NoLast

\* the calls that evaluate a QuerySet on the session; a run of the model is a
\* chain of calls ended by one of them
Evaluated ==
  last.op \in {"all", "first", "count", "exists", "get_one_or_raise", "get_one_or_none",
              "get_or_create", "update_or_create", "in_bulk", "delete", "update"}

CanCreate == Len(qsets) < MaxQS /\ ~Evaluated

\* the outcome of a chain call on receiver i: the clone is returned unless the
\* call raised
Returned(i, op, err, obj, arg) ==
  /\ qsets' = IF err = "ok" THEN Append(qsets, obj) ELSE qsets
  /\ last' = [NoLast EXCEPT !.op = op, !.recv = i, !.err = err, !.arg = arg,
                            !.new = IF err = "ok" THEN Len(qsets) + 1 ELSE 0]

QsFilter(i, kwargs) ==
  \E obj \in {Clone(qsets[i])} : \E r \in {FilterResult(obj, kwargs)} :
     /\ CanCreate
     /\ whereH' = [whereH EXCEPT ![obj.where] = r.where]
     /\ joinsH' = [joinsH EXCEPT ![obj.joins].nodes = r.nodes]
     /\ qsets' = IF r.err = "ok" THEN Append(qsets, obj) ELSE qsets
     /\ last' = [NoLast EXCEPT !.op = "filter", !.recv = i, !.err = r.err, !.arg = kwargs,
                               !.new = IF r.err = "ok" THEN Len(qsets) + 1 ELSE 0,
                               !.warned = r.warned]
     /\ UNCHANGED <<optionsH, orderH, db, session>>

QsOptions(i, fields) ==
  \E obj \in {Clone(qsets[i])} :
  \E r \in {OptionsLoop([err |-> "ok", opts |-> optionsH[obj.options],
                         nodes |-> joinsH[obj.joins].nodes], fields, 1)} :
     /\ CanCreate
     /\ optionsH' = [optionsH EXCEPT ![obj.options] = r.opts]
     /\ joinsH' = [joinsH EXCEPT ![obj.joins].nodes = r.nodes]
     /\ Returned(i, "options", r.err, obj, fields)
     /\ UNCHANGED <<whereH, orderH, db, session>>

QsOrderBy(i, fields) ==
  \E obj \in {Clone(qsets[i])} :
  \E r \in {OrderLoop([err |-> "ok", ordering |-> orderH[obj.ordering],
                       nodes |-> joinsH[obj.joins].nodes], fields, 1)} :
     /\ CanCreate
     /\ BagSizeOf(r.ordering, DOMAIN r.ordering) <= MaxOrderings
     /\ orderH' = [orderH EXCEPT ![obj.ordering] = r.ordering]
     /\ joinsH' = [joinsH EXCEPT ![obj.joins].nodes = r.nodes]
     /\ Returned(i, "order_by", r.err, obj, fields)
     /\ UNCHANGED <<whereH, optionsH, db, session>>

\* outerjoin / innerjoin (lines 278-298)
QsJoin(i, joins, isouter) ==
  \E obj \in {Clone(qsets[i])} :
  \E r \in {JoinLoop([err |-> "ok", nodes |-> joinsH[obj.joins].nodes,
                      outer |-> joinsH[obj.joins].outer], joins, isouter, 1)} :
     /\ CanCreate
     /\ joinsH' = [joinsH EXCEPT ![obj.joins] = [nodes |-> r.nodes, outer |-> r.outer]]
     /\ Returned(i, IF isouter THEN "outerjoin" ELSE "innerjoin", r.err, obj, joins)
     /\ UNCHANGED <<whereH, optionsH, orderH, db, session>>

\* limit (lines 300-303)
QsLimit(i, n) ==
  /\ CanCreate
  /\ Returned(i, "limit", "ok", [Clone(qsets[i]) EXCEPT !.limit = {n}], n)
  /\ UNCHANGED <<whereH, joinsH, optionsH, orderH, db, session>>

\* offset (lines 305-308)
QsOffset(i, n) ==
  /\ CanCreate
  /\ Returned(i, "offset", "ok", [Clone(qsets[i]) EXCEPT !.offset = {n}], n)
  /\ UNCHANGED <<whereH, joinsH, optionsH, orderH, db, session>>

QsReturning(i, cols, return_model) ==
  \E r \in {ReturningResult(qsets[i], cols, return_model)} :
  /\ CanCreate
  /\ Returned(i, "returning", r.err, [Clone(qsets[i]) EXCEPT !.returning = r.returning],
              <<cols, return_model>>)
  /\ UNCHANGED <<whereH, joinsH, optionsH, orderH, db, session>>

\* execution_options (lines 479-482)
QsExecutionOptions(i, opts) ==
  /\ CanCreate
  /\ Returned(i, "execution_options", "ok",
              [Clone(qsets[i]) EXCEPT !.execution_options = opts], opts)
  /\ UNCHANGED <<whereH, joinsH, optionsH, orderH, db, session>>

\* a terminal call on receiver i that changes nothing but `last`
Answered(rec) ==
  /\ ~Evaluated
  /\ last' = rec
  /\ UNCHANGED <<qsets, whereH, joinsH, optionsH, orderH, db, session>>

Called(op, i) == [NoLast EXCEPT !.op = op, !.recv = i]

QsAll(i) ==
  \E r \in {AllOf(db, View(qsets[i]))} :
  Answered([Called("all", i) EXCEPT !.err = r.err, !.rows = r.rows, !.stmts = r.stmts])

\* first() setting the limit on the receiver instead of on its copy
QsFirstOnReceiver(i) ==
  \E r \in {FirstOf(db, View(qsets[i]))} :
     /\ ~Evaluated
     /\ qsets' = [qsets EXCEPT ![i].limit = {1}]
     /\ last' = [Called("first", i) EXCEPT !.err = r.err, !.rows = r.rows, !.stmts = r.stmts]
     /\ UNCHANGED <<whereH, joinsH, optionsH, orderH, db, session>>

QsFirst(i) ==
  \E r \in {FirstOf(db, View(Clone(qsets[i])))} :
  Answered([Called("first", i) EXCEPT !.err = r.err, !.rows = r.rows, !.stmts = r.stmts])

QsCount(i) ==
  \E r \in {CountOf(db, View(Clone(qsets[i])))} :
  Answered([Called("count", i) EXCEPT !.err = r.err, !.count = r.count, !.stmts = r.stmts])

\* exists() (lines 414-416): count() > 0
QsExists(i) ==
  \E r \in {CountOf(db, View(Clone(qsets[i])))} :
  Answered([Called("exists", i) EXCEPT !.err = r.err, !.stmts = r.stmts,
                                       !.created = (r.err = "ok" /\ r.count > 0)])

QsGetOneOrRaise(i) ==
  \E r \in {GetOneOrRaiseOf(db, View(qsets[i]), "ObjectNotFoundError")} :
  Answered([Called("get_one_or_raise", i) EXCEPT !.err = r.err, !.rows = r.rows,
                                                 !.stmts = r.stmts])

QsGetOneOrNone(i) ==
  \E r \in {GetOneOrNoneOf(db, View(qsets[i]))} :
  Answered([Called("get_one_or_none", i) EXCEPT !.err = r.err, !.rows = r.rows,
                                                !.stmts = r.stmts])

\* obj.filter(**kwargs) inside a terminal call: the temporary QuerySet shares
\* the receiver's dicts, so the filter is written into them
FilteredView(q, f) == [View(q) EXCEPT !.where = f.where, !.nodes = f.nodes]

\* what a get_or_create / update_or_create call that ended as `r` leaves behind
Created(op, i, r, arg) ==
  /\ db' = r.db
  /\ last' = [Called(op, i) EXCEPT !.err = r.err, !.rows = r.rows,
                !.created = r.created, !.stmts = r.stmts, !.flushes = r.flushes,
                !.arg = arg]

QsGetOrCreate(i, defaults, kwargs) ==
  \E q \in {Clone(qsets[i])} : \E f \in {FilterResult(q, kwargs)} :
  \E r \in {GetOrCreateOf(db, FilteredView(q, f), f.err, defaults, kwargs)} :
     /\ ~Evaluated
     /\ whereH' = [whereH EXCEPT ![q.where] = f.where]
     /\ joinsH' = [joinsH EXCEPT ![q.joins].nodes = f.nodes]
     /\ Created("get_or_create", i, r, kwargs)
     /\ UNCHANGED <<qsets, optionsH, orderH, session>>

UpdatedOrCreated(i, r, arg) ==
  /\ session' = r.session
  /\ Created("update_or_create", i, r, arg)

QsUpdateOrCreate(i, defaults, create_defaults, kwargs) ==
  \E q \in {Clone(qsets[i])} : \E f \in {FilterResult(q, kwargs)} :
  \E cd \in (IF create_defaults = {} THEN {defaults} ELSE create_defaults) :
  \E r \in {UpdateOrCreateOf(db, session, FilteredView(q, f), f.err, defaults, cd, kwargs)} :
     /\ ~Evaluated
     /\ whereH' = [whereH EXCEPT ![q.where] = f.where]
     /\ joinsH' = [joinsH EXCEPT ![q.joins].nodes = f.nodes]
     /\ UpdatedOrCreated(i, r, defaults)
     /\ UNCHANGED <<qsets, optionsH, orderH>>

\* in_bulk(id_list, field_name) (lines 382-406); id_list = {} is None, else
\* {l} with l = [value, ids] the strings or ints of the list
IdList(value, ids) == [value |-> value, ids |-> ids]

InBulkFilter(q, id_list, field_name) ==
  LET l == CHOOSE x \in id_list : TRUE IN
  IF id_list = {} \/ (l.value = {} /\ l.ids = {})
  THEN [err |-> "ok", where |-> whereH[q.where], nodes |-> joinsH[q.joins].nodes]
  ELSE FilterResult(Clone(q), <<Kw(<<field_name, "in">>, l.value, l.ids)>>)

QsInBulk(i, id_list, field_name) ==
  \E q \in {qsets[i]} : \E f \in {InBulkFilter(q, id_list, field_name)} :
  \E r \in {IF id_list = {IdList({}, {})} \/ f.err # "ok"
             THEN [err |-> f.err, rows |-> <<>>, stmts |-> 0]
             ELSE AllOf(db, FilteredView(q, f))} :
     /\ ~Evaluated
     /\ whereH' = [whereH EXCEPT ![q.where] = f.where]
     /\ joinsH' = [joinsH EXCEPT ![q.joins].nodes = f.nodes]
     /\ last' = [Called("in_bulk", i) EXCEPT !.err = r.err, !.rows = r.rows,
                   !.stmts = r.stmts,
                   !.mapping = BulkMapping(db, r.rows, field_name),
                   !.arg = <<id_list, field_name>>]
     /\ UNCHANGED <<qsets, optionsH, orderH, db, session>>

\* delete() (lines 462-464)
QsDelete(i) ==
  \E c \in {GetDeleteStmt(View(qsets[i]))} :
  /\ ~Evaluated
  /\ db' = IF c.err = "ok" THEN [db EXCEPT ![RootModel] = @ \ Targeted(db, c.stmt)] ELSE db
  /\ last' = [Called("delete", i) EXCEPT !.err = c.err,
                                         !.stmts = IF c.err = "ok" THEN 1 ELSE 0]
  /\ UNCHANGED <<qsets, whereH, joinsH, optionsH, orderH, session>>

\* update(**values) (lines 494-496)
QsUpdate(i, values) ==
  \E c \in {GetUpdateStmt(View(qsets[i]), values)} :
  /\ ~Evaluated
  /\ db' = IF c.err = "ok" THEN ExecUpdate(db, c.stmt) ELSE db
  /\ last' = [Called("update", i) EXCEPT !.err = c.err,
                                         !.stmts = IF c.err = "ok" THEN 1 ELSE 0]
  /\ UNCHANGED <<qsets, whereH, joinsH, optionsH, orderH, session>>

\* ===================================================== repositories/builder.py
\* The QueryBuilder objects in existence (a call of clone() adds one), the
\* nested "children" dicts their _joins dicts refer to, and the last call made
VARIABLES builders, childrenH, qbLast, qbCalls

qbVars == <<builders, childrenH, qbLast, qbCalls>>

\* the two shapes a value of _where / _order_by has: the dict the compilers
\* read ({'op': ..., 'value': ...} / {'direction': ...}) and the SQLAlchemy
\* expression the chain methods store
DictEntry(x) == [form |-> "dict", of |-> x]
ExprEntry(x) == [form |-> "expr", of |-> x]

\* one dict of the join tree: the keys it holds and what they hold
\* (`model` is stored under "model_cls" or "target", `outer` are the flag keys
\* holding True)
JoinNode(keys, model, where, order_by, outer) ==
  [keys |-> keys, model |-> model, where |-> where, order_by |-> order_by, outer |-> outer]

\* the value of the sample filters of __init__

\* self._joins["children"] as __init__ builds it (lines 66-102), keyed by the
\* path of relationship names from the root
InitChildren ==
  [p \in {<<"subsections">>, <<"subsections", "status">>, <<"status">>} |->
     CASE p = <<"subsections">> ->
            JoinNode({"model_cls", "where", "order_by", "is_outer", "children"}, "Subsection",
                     {Cond("Subsection", "name", "exact", {"value"}, {})},
                     <<OrderExpr("Subsection", "status_id", FALSE),
                       OrderExpr("Subsection", "name", TRUE)>>, {})
       [] p = <<"subsections", "status">> ->
            JoinNode({"model_cls", "where"}, "PublicationStatus",
                     {Cond("PublicationStatus", "code", "exact", {"published"}, {})}, <<>>, {})
       [] p = <<"status">> ->
            JoinNode({"model_cls", "is_outer"}, "PublicationStatus", {}, <<>>, {})]

\* QueryBuilder.__init__ (lines 63-117); `ref` is the "children" dict of the
\* new _joins
NewBuilder(ref) ==
  [where |-> [k \in {<<"name">>} |->
                DictEntry(Cond(RootModel, "name", "exact", {"value"}, {}))],
   joins |-> ref,
   options |-> << <<"subsections", "status">>, <<"status">> >>,
   order_by |-> << [key |-> <<"status_id">>,
                     val |-> DictEntry(OrderExpr(RootModel, "status_id", FALSE))],
                   [key |-> <<"name">>,
                     val |-> DictEntry(OrderExpr(RootModel, "name", TRUE))] >>,
   limit |-> {}, offset |-> {}, returning |-> <<>>]

\* clone() (lines 119-133): {**self._joins} is a new dict whose "children"
\* value is the receiver's dict
BuilderClone(b) ==
  [where |-> b.where, joins |-> b.joins, options |-> b.options, order_by |-> b.order_by,
   limit |-> b.limit, offset |-> b.offset, returning |-> b.returning]

\* get_annotations / get_relationships / get_columns of repositories.utils
Annotations(m) == Columns(m) \cup DOMAIN Relationships(m)

\* _join (lines 299-308) preceded by joins.setdefault("children", {}) on the
\* dict at `parent`: the dict of `attr` is entered when it exists, which reads
\* its "target", else it is created with "target" and "onclause"
BuilderJoin(tree, parent, attr) ==
  LET p == Append(parent, attr)
      t == IF parent = <<>> THEN tree
           ELSE [tree EXCEPT ![parent].keys = @ \cup {"children"}]
  IN IF p \in DOMAIN t
     THEN [err |-> IF "target" \in t[p].keys THEN "ok" ELSE "KeyError", tree |-> t,
           model |-> t[p].model]
     ELSE [err |-> "ok",
           tree |-> [x \in DOMAIN t \cup {p} |->
                       IF x = p
                       THEN JoinNode({"target", "onclause"},
                                     Relationships(ModelAt(RootModel, parent))[attr],
                                     {}, <<>>, {})
                       ELSE t[x]],
           model |-> Relationships(ModelAt(RootModel, parent))[attr]]

\* filter (lines 141-158): the walk over the segments of one filter field
RECURSIVE BuilderFilterWalk(_, _, _)
BuilderFilterWalk(attrs, idx, st) ==
  IF idx > Len(attrs) \/ st.err # "ok" THEN st
  ELSE IF attrs[idx] \notin st.expected THEN [st EXCEPT !.err = "InvalidFilteringFieldError"]
  ELSE IF attrs[idx] \in DOMAIN Relationships(st.model)
  THEN LET j == BuilderJoin(st.tree, st.path, attrs[idx]) IN
       BuilderFilterWalk(attrs, idx + 1,
         [st EXCEPT !.err = j.err, !.tree = j.tree, !.model = j.model,
                    !.path = Append(st.path, attrs[idx]),
                    !.expected = Annotations(j.model)])
  ELSE IF attrs[idx] \in Columns(st.model)
  THEN BuilderFilterWalk(attrs, idx + 1,
         [st EXCEPT !.column = <<st.model, attrs[idx]>>, !.expected = Lookups])
  ELSE IF attrs[idx] \in Lookups
  THEN BuilderFilterWalk(attrs, idx + 1, [st EXCEPT !.op = attrs[idx], !.expected = {}])
  ELSE [st EXCEPT !.err = "InvalidFilteringFieldError"]

\* the state of the walk before the first segment
WalkStart(tree) ==
  [err |-> "ok", tree |-> tree, model |-> RootModel, path |-> <<>>, column |-> <<>>,
   op |-> "exact", expected |-> Annotations(RootModel)]

\* d[key] = value on a dict kept as the sequence of its items
ItemSet(d, key, value) ==
  IF \E i \in 1..Len(d) : d[i].key = key
  THEN [i \in 1..Len(d) |-> IF d[i].key = key THEN [key |-> key, val |-> value] ELSE d[i]]
  ELSE Append(d, [key |-> key, val |-> value])

\* filter (lines 135-162) for one keyword argument, on [err, where, tree]
BuilderFilterOne(st, kw) ==
  IF st.err # "ok" THEN st
  ELSE LET w == BuilderFilterWalk(kw.name, 1, WalkStart(st.tree)) IN
       IF w.err # "ok" THEN [st EXCEPT !.err = w.err, !.tree = w.tree]
       ELSE IF w.column = <<>>
       THEN [st EXCEPT !.err = "InvalidFilteringFieldError", !.tree = w.tree]
       ELSE [st EXCEPT !.tree = w.tree,
                       !.where = DictSet(st.where, kw.name,
                                   ExprEntry(Cond(w.column[1], w.column[2], w.op,
                                                  kw.value, kw.ids)))]

RECURSIVE BuilderFilterLoop(_, _, _)
BuilderFilterLoop(st, kwargs, i) ==
  IF i > Len(kwargs) THEN st
  ELSE BuilderFilterLoop(BuilderFilterOne(st, kwargs[i]), kwargs, i + 1)

\* order_by (lines 171-185): the walk over the segments of one ordering field
RECURSIVE BuilderOrderWalk(_, _, _)
BuilderOrderWalk(attrs, idx, st) ==
  IF idx > Len(attrs) \/ st.err # "ok" THEN st
  ELSE IF attrs[idx] \notin st.expected THEN [st EXCEPT !.err = "InvalidOrderingFieldError"]
  ELSE IF attrs[idx] \in DOMAIN Relationships(st.model)
  THEN LET j == BuilderJoin(st.tree, st.path, attrs[idx]) IN
       BuilderOrderWalk(attrs, idx + 1,
         [st EXCEPT !.err = j.err, !.tree = j.tree, !.model = j.model,
                    !.path = Append(st.path, attrs[idx]),
                    !.expected = Annotations(j.model)])
  ELSE IF attrs[idx] \in Columns(st.model)
  THEN BuilderOrderWalk(attrs, idx + 1,
         [st EXCEPT !.column = <<st.model, attrs[idx]>>, !.expected = {}])
  ELSE [st EXCEPT !.err = "InvalidOrderingFieldError"]

\* order_by (lines 164-188) for one field, on [err, order_by, tree]; the key
\* keeps a leading "-", a "+" is stripped
BuilderOrderOne(st, tok) ==
  IF st.err # "ok" THEN st
  ELSE LET w == BuilderOrderWalk(tok.path, 1, WalkStart(st.tree)) IN
       IF w.err # "ok" THEN [st EXCEPT !.err = w.err, !.tree = w.tree]
       ELSE IF w.column = <<>>
       THEN [st EXCEPT !.err = "InvalidOrderingFieldError", !.tree = w.tree]
       ELSE [st EXCEPT !.tree = w.tree,
                       !.order_by = ItemSet(st.order_by,
                                      IF tok.sign = "-" THEN <<"-">> \o tok.path ELSE tok.path,
                                      ExprEntry(OrderExpr(w.column[1], w.column[2],
                                                          tok.sign = "-")))]

RECURSIVE BuilderOrderLoop(_, _, _)
BuilderOrderLoop(st, fields, i) ==
  IF i > Len(fields) THEN st
  ELSE BuilderOrderLoop(BuilderOrderOne(st, fields[i]), fields, i + 1)

\* options (lines 190-204): self._options is a list, so the first segment
\* that is a relationship ends in list.setdefault
BuilderOptionsErr(fields) ==
  IF fields = <<>> \/ fields[1] = <<>> THEN "ok"
  ELSE IF fields[1][1] \in DOMAIN Relationships(RootModel) THEN "AttributeError"
  ELSE "InvalidOptionFieldError"

\* outerjoin (lines 229-245): the walk over the segments of one join field
RECURSIVE BuilderJoinWalk(_, _, _)
BuilderJoinWalk(attrs, idx, st) ==
  IF idx > Len(attrs) \/ st.err # "ok" THEN st
  ELSE IF attrs[idx] \in DOMAIN Relationships(st.model)
  THEN LET j == BuilderJoin(st.tree, st.path, attrs[idx]) IN
       BuilderJoinWalk(attrs, idx + 1,
         [st EXCEPT !.err = j.err, !.tree = j.tree, !.model = j.model,
                    !.path = Append(st.path, attrs[idx])])
  ELSE [st EXCEPT !.err = "InvalidJoinFieldError"]

\* line 245: penultimate_joins[last_attr]["isouter"] = True
BuilderOuterjoinOne(st, field) ==
  IF st.err # "ok" THEN st
  ELSE LET w == BuilderJoinWalk(field, 1, WalkStart(st.tree)) IN
       IF w.err # "ok" THEN [st EXCEPT !.err = w.err, !.tree = w.tree]
       ELSE [st EXCEPT !.tree = [w.tree EXCEPT ![w.path].keys = @ \cup {"isouter"},
                                               ![w.path].outer = @ \cup {"isouter"}]]

RECURSIVE BuilderOuterjoinLoop(_, _, _)
BuilderOuterjoinLoop(st, fields, i) ==
  IF i > Len(fields) THEN st
  ELSE BuilderOuterjoinLoop(BuilderOuterjoinOne(st, fields[i]), fields, i + 1)

\* returning (lines 206-218)
BuilderReturning(b, cols, return_model) ==
  IF cols # <<>> /\ return_model THEN [err |-> "ValueError", returning |-> b.returning]
  ELSE IF cols = <<>> /\ ~return_model THEN [err |-> "ValueError", returning |-> b.returning]
  ELSE IF \E i \in 1..Len(cols) : cols[i] \notin Columns(RootModel)
  THEN [err |-> "ColumnNotFoundError",
        returning |-> SubSeq(cols, 1, (CHOOSE i \in 1..Len(cols) :
                                         /\ cols[i] \notin Columns(RootModel)
                                         /\ \A j \in 1..(i - 1) : cols[j] \in Columns(RootModel))
                                      - 1)]
  ELSE [err |-> "ok", returning |-> IF return_model THEN <<RootModel>> ELSE cols]

\* --------------------------------------------- QueryBuilder statement compilers
\* a statement under construction, or the exception its construction raised
BuilderStmt(kind) ==
  [err |-> "ok", kind |-> kind, joins |-> {}, where |-> {}, order |-> <<>>,
   options |-> {}, limit |-> {}, offset |-> {}, returning |-> <<>>, subquery |-> {}]

\* _apply_limit / _apply_offset (lines 391-399)
BuilderApplyLimit(stmt, b) == [stmt EXCEPT !.limit = b.limit]
BuilderApplyOffset(stmt, b) == [stmt EXCEPT !.offset = b.offset]

\* _apply_where (lines 401-408) on the root's conditions: value['op'] of a
\* stored SQLAlchemy expression is an unsupported getitem
BuilderApplyWhere(stmt, b) ==
  IF stmt.err # "ok" THEN stmt
  ELSE IF \E k \in DOMAIN b.where : b.where[k].form = "expr"
  THEN [stmt EXCEPT !.err = "NotImplementedError"]
  ELSE [stmt EXCEPT !.where = @ \cup {b.where[k].of : k \in DOMAIN b.where}]

\* _apply_order_by (lines 410-418)
RECURSIVE OrderOf(_, _)
OrderOf(d, i) == IF i > Len(d) THEN <<>> ELSE <<d[i].val.of>> \o OrderOf(d, i + 1)

BuilderApplyOrderBy(stmt, b) ==
  IF stmt.err # "ok" THEN stmt
  ELSE IF \E i \in 1..Len(b.order_by) : b.order_by[i].val.form = "expr"
  THEN [stmt EXCEPT !.err = "NotImplementedError"]
  ELSE [stmt EXCEPT !.order = @ \o OrderOf(b.order_by, 1)]

\* the dicts of the join tree a walk through the "children" keys visits
Visited(tree) ==
  {p \in DOMAIN tree :
     \A n \in 1..(Len(p) - 1) : "children" \in tree[SubSeq(p, 1, n)].keys}

\* _apply_joins (lines 420-430): reads "target", "onclause" and "isouter"
BuilderApplyJoins(stmt, tree) ==
  IF stmt.err # "ok" THEN stmt
  ELSE IF \E p \in Visited(tree) : "target" \notin tree[p].keys
  THEN [stmt EXCEPT !.err = "KeyError"]
  ELSE [stmt EXCEPT !.joins = {[path |-> p, isouter |-> "isouter" \in tree[p].outer] :
                                p \in Visited(tree)}]

\* the conditions / orderings _apply_joins_new collects from the visited
\* dicts, parents before children
RECURSIVE NodeOrders(_, _)
NodeOrders(tree, P) ==
  IF P = {} THEN <<>>
  ELSE LET p == CHOOSE x \in P : \A y \in P : Len(x) <= Len(y) IN
       tree[p].order_by \o NodeOrders(tree, P \ {p})

\* _get_options (lines 591-606): tree[attr] for every prefix of every option
\* field
GetOptions(b, tree) ==
  IF \E i \in 1..Len(b.options) : \E n \in 1..Len(b.options[i]) :
        SubSeq(b.options[i], 1, n) \notin Visited(tree)
  THEN [err |-> "KeyError", options |-> {}]
  ELSE [err |-> "ok",
        options |-> {[n \in 1..Len(b.options[i]) |->
                        [relation |-> b.options[i][n], loader |-> "contains_eager"]] :
                     i \in 1..Len(b.options)}]

\* _apply_joins_new (lines 432-589): reads "model_cls", "where", "order_by"
\* and "is_outer"
BuilderApplyJoinsNew(stmt, b, tree, apply_where, apply_order_by, apply_options) ==
  IF stmt.err # "ok" THEN stmt
  ELSE IF \E p \in Visited(tree) : "model_cls" \notin tree[p].keys
  THEN [stmt EXCEPT !.err = "KeyError"]
  ELSE IF apply_options /\ GetOptions(b, tree).err # "ok"
  THEN [stmt EXCEPT !.err = GetOptions(b, tree).err]
  ELSE [stmt EXCEPT
          !.joins = {[path |-> p, isouter |-> "is_outer" \in tree[p].outer] :
                       p \in Visited(tree)},
          !.where = IF apply_where
                    THEN @ \cup UNION {tree[p].where : p \in Visited(tree)} ELSE @,
          !.order = IF apply_order_by THEN @ \o NodeOrders(tree, Visited(tree)) ELSE @,
          !.options = IF apply_options THEN GetOptions(b, tree).options ELSE @]

\* _build_stmt_wo_options (lines 310-317)
BuildStmtWoOptions(b, tree) ==
  BuilderApplyOrderBy(
    BuilderApplyWhere(
      BuilderApplyJoinsNew(BuilderStmt("select"), b, tree, TRUE, TRUE, TRUE), b), b)

\* the subquery of _build_stmt_w_options (lines 343-347)
BuildSubquery(b, tree) ==
  BuilderApplyJoinsNew(
    BuilderApplyWhere(
      BuilderApplyOffset(BuilderApplyLimit(BuilderStmt("select_distinct"), b), b), b),
    b, tree, TRUE, FALSE, FALSE)

\* the statement selecting from the alias of `subquery` (lines 348-350)
SelectFromSubquery(b, tree, subquery) ==
  IF subquery.err # "ok" THEN [BuilderStmt("select") EXCEPT !.err = subquery.err]
  ELSE BuilderApplyJoinsNew([BuilderStmt("select") EXCEPT !.subquery = {subquery}],
                            b, tree, TRUE, TRUE, TRUE)

\* _build_stmt_w_options (lines 319-359)
BuildStmtWOptions(b, tree) ==
  IF Truthy(b.limit) \/ Truthy(b.offset)
  THEN SelectFromSubquery(b, tree, BuildSubquery(b, tree))
  ELSE BuilderApplyOrderBy(
         BuilderApplyWhere(
           BuilderApplyJoinsNew(BuilderStmt("select"), b, tree, TRUE, TRUE, TRUE), b), b)

\* build_select_stmt (lines 268-273)
BuildSelectStmt(b, tree) ==
  IF b.options # <<>> THEN BuildStmtWOptions(b, tree) ELSE BuildStmtWoOptions(b, tree)

\* build_count_stmt (lines 257-266)
BuildCountStmt(b, tree) ==
  BuilderApplyWhere(BuilderApplyJoins(BuilderStmt("count_distinct_pk"), tree), b)

\* build_delete_stmt (lines 275-285)
BuildDeleteStmt(b, tree) ==
  [BuilderApplyWhere(BuilderApplyJoins(BuilderStmt("delete_pk_in"), tree), b)
     EXCEPT !.returning = b.returning]

\* build_update_stmt (lines 287-297)
BuildUpdateStmt(b, tree) ==
  [BuilderApplyWhere(BuilderApplyJoins(BuilderStmt("update_pk_in"), tree), b)
     EXCEPT !.returning = b.returning]

\* ------------------------------------------------- QueryBuilder operations
\* what the last QueryBuilder call was, with its arguments, and how it ended
NoBuilderLast ==
  [op |-> "none", recv |-> 0, err |-> "ok", arg |-> <<>>, stmt |-> BuilderStmt("none")]

QbInit ==
  /\ builders = <<NewBuilder(1)>>
  /\ childrenH = [r \in 1..MaxQB |-> InitChildren]
  /\ qbLast = NoBuilderLast
  /\ qbCalls = 0

\* a run of the model is a sequence of calls ended by one compilation
Built ==
  qbLast.op \in {"build_select_stmt", "build_count_stmt", "build_delete_stmt",
                "build_update_stmt"}

\* one more call can be made
CanCall == ~Built /\ qbCalls < MaxCalls

BuilderCalled(op, k, err) == [NoBuilderLast EXCEPT !.op = op, !.recv = k, !.err = err]

\* QueryBuilder(Section)
QbConstruct ==
  /\ CanCall /\ Len(builders) < MaxQB
  /\ builders' = Append(builders, NewBuilder(Len(builders) + 1))
  /\ qbCalls' = qbCalls + 1
  /\ qbLast' = BuilderCalled("__init__", Len(builders) + 1, "ok")
  /\ UNCHANGED childrenH

QbClone(k) ==
  /\ CanCall /\ Len(builders) < MaxQB
  /\ builders' = Append(builders, BuilderClone(builders[k]))
  /\ qbCalls' = qbCalls + 1
  /\ qbLast' = BuilderCalled("clone", k, "ok")
  /\ UNCHANGED childrenH

QbFilter(k, kwargs) ==
  \E b \in {builders[k]} :
  \E r \in {BuilderFilterLoop([err |-> "ok", where |-> b.where, tree |-> childrenH[b.joins]],
                              kwargs, 1)} :
     /\ CanCall
     /\ builders' = [builders EXCEPT ![k].where = r.where]
     /\ childrenH' = [childrenH EXCEPT ![b.joins] = r.tree]
     /\ qbCalls' = qbCalls + 1
     /\ qbLast' = [BuilderCalled("filter", k, r.err) EXCEPT !.arg = kwargs]

QbOrderBy(k, fields) ==
  \E b \in {builders[k]} :
  \E r \in {BuilderOrderLoop([err |-> "ok", order_by |-> b.order_by,
                              tree |-> childrenH[b.joins]], fields, 1)} :
     /\ CanCall
     /\ Len(r.order_by) <= MaxOrderBy
     /\ builders' = [builders EXCEPT ![k].order_by = r.order_by]
     /\ childrenH' = [childrenH EXCEPT ![b.joins] = r.tree]
     /\ qbCalls' = qbCalls + 1
     /\ qbLast' = [BuilderCalled("order_by", k, r.err) EXCEPT !.arg = fields]

QbOptions(k, fields) ==
  /\ CanCall
  /\ qbCalls' = qbCalls + 1
  /\ qbLast' = [BuilderCalled("options", k, BuilderOptionsErr(fields)) EXCEPT !.arg = fields]
  /\ UNCHANGED <<builders, childrenH>>

QbOuterjoin(k, fields) ==
  \E b \in {builders[k]} :
  \E r \in {BuilderOuterjoinLoop([err |-> "ok", tree |-> childrenH[b.joins]], fields, 1)} :
     /\ CanCall
     /\ childrenH' = [childrenH EXCEPT ![b.joins] = r.tree]
     /\ qbCalls' = qbCalls + 1
     /\ qbLast' = [BuilderCalled("outerjoin", k, r.err) EXCEPT !.arg = fields]
     /\ UNCHANGED builders

\* limit (lines 247-250)
QbLimit(k, n) ==
  /\ CanCall
  /\ builders' = IF n < 1 THEN builders ELSE [builders EXCEPT ![k].limit = {n}]
  /\ qbCalls' = qbCalls + 1
  /\ qbLast' = BuilderCalled("limit", k, IF n < 1 THEN "ValueError" ELSE "ok")
  /\ UNCHANGED childrenH

\* offset (lines 252-255)
QbOffset(k, n) ==
  /\ CanCall
  /\ builders' = IF n < 0 THEN builders ELSE [builders EXCEPT ![k].offset = {n}]
  /\ qbCalls' = qbCalls + 1
  /\ qbLast' = BuilderCalled("offset", k, IF n < 0 THEN "ValueError" ELSE "ok")
  /\ UNCHANGED childrenH

QbReturning(k, cols, return_model) ==
  \E r \in {BuilderReturning(builders[k], cols, return_model)} :
     /\ CanCall
     /\ builders' = [builders EXCEPT ![k].returning = r.returning]
     /\ qbCalls' = qbCalls + 1
     /\ qbLast' = BuilderCalled("returning", k, r.err)
     /\ UNCHANGED childrenH

\* a compilation: the statement, or the exception in its `err`
QbBuilt(op, k, stmt) ==
  /\ ~Built
  /\ qbLast' = [op |-> op, recv |-> k, err |-> stmt.err, arg |-> <<>>, stmt |-> stmt]
  /\ UNCHANGED <<builders, childrenH, qbCalls>>

QbBuildSelect(k) ==
  \E stmt \in {BuildSelectStmt(builders[k], childrenH[builders[k].joins])} :
     QbBuilt("build_select_stmt", k, stmt)

QbBuildCount(k) ==
  \E stmt \in {BuildCountStmt(builders[k], childrenH[builders[k].joins])} :
     QbBuilt("build_count_stmt", k, stmt)

QbBuildDelete(k) ==
  \E stmt \in {BuildDeleteStmt(builders[k], childrenH[builders[k].joins])} :
     QbBuilt("build_delete_stmt", k, stmt)

QbBuildUpdate(k) ==
  \E stmt \in {BuildUpdateStmt(builders[k], childrenH[builders[k].joins])} :
     QbBuilt("build_update_stmt", k, stmt)

\* The arguments the calls of the two classes are made with: each field is the
\* set of argument values (or the one value) its method is called with.
Args ==
  LET KwName == Kw(<<"name">>, {"X"}, {})
      KwSubName == Kw(<<"subsections", "name">>, {"a"}, {})
      KwIcontains == Kw(<<"name", "icontains">>, {"x"}, {})
      KwBadPath == Kw(<<"status", "bogus">>, {"X"}, {})
      KwStatusId == Kw(<<"status_id">>, {}, {2})
      \* a path that ends in a relationship, and one that names two fields
      KwRel == Kw(<<"subsections", "status">>, {"X"}, {})
      KwTwoFields == Kw(<<"name", "status_id">>, {"X"}, {})
  IN [filter |-> {<<KwName>>, <<Kw(<<"name">>, {"Y"}, {})>>, <<KwSubName>>,
                  <<KwName, KwBadPath>>, <<KwRel>>, <<KwTwoFields>>},
      options |-> {<<<<"subsections">>>>, <<<<"name">>>>},
      order_by |-> {<<Tok("-", <<"name">>)>>, <<Tok("", <<"name">>)>>,
                    <<Tok("", <<"subsections", "name">>)>>, <<Tok("", <<"bogus">>)>>},
      joins |-> {<<<<"subsections">>>>, <<<<"bogus">>>>},
      limit |-> {0, 2},
      offset |-> {-1, 1},
      \* returning(*cols, return_model): (cols, return_model)
      returning |-> {<<<<"id">>, FALSE>>, <<<<"id">>, TRUE>>, <<<<>>, TRUE>>},
      \* get_or_create(defaults, **lookup) / update_or_create(defaults, **kwargs)
      defaults |-> <<KwStatusId>>,
      lookup |-> <<KwIcontains>>,
      kwargs |-> <<KwName>>,
      \* in_bulk(id_list, field_name)
      in_bulk |-> {<<{}, "id">>, <<{IdList({}, {})}, "id">>, <<{IdList({}, {3})}, "id">>},
      \* update(**values)
      values |-> [c \in {"status_id"} |-> 2],
      \* BaseRepository.create(values, ...) / bulk_create(values, batch_size, ...);
      \* batch_size as its type and number
      create_values |-> {<<KwName>>, <<Kw(<<"name">>, {"Y"}, {})>>,
                        <<Kw(<<"bogus">>, {"X"}, {})>>},
      bulk_values |-> {<<>>, <<<<KwName>>>>, <<<<KwName>>, <<Kw(<<"name">>, {"Y"}, {})>>>>,
                       <<<<KwName>>, <<Kw(<<"name">>, {"Y"}, {})>>, <<KwName>>>>},
      batch_size |-> {[type |-> "NoneType", n |-> 0], [type |-> "float", n |-> 2]}
                       \cup {[type |-> "int", n |-> n] : n \in -1..2},
      \* a split filter name of 2..MaxSegments segments, and the field and
      \* relationship names of the entity its last segment is looked up on:
      \* PublicationStatus of models/help.py, and an entity with a field named
      \* as a lookup (the `Meet` with a column `day` of queryset.py 98-99)
      filter_name |-> UNION {[1..n -> {"status", "name", "year", "icontains", "bogus"}] :
                               n \in 2..MaxSegments},
      entity_names |-> {{"id", "code", "name"}, {"id", "name", "year"}},
      \* the QueryBuilder methods
      qb_filter |-> {<<KwName>>, <<KwIcontains>>, <<KwSubName>>, <<KwBadPath>>,
                     <<Kw(<<"status">>, {"X"}, {})>>, <<KwTwoFields>>},
      qb_order_by |-> {<<Tok("-", <<"name">>)>>, <<Tok("", <<"id">>)>>,
                       <<Tok("", <<"subsections", "name">>)>>, <<Tok("", <<"bogus">>)>>},
      qb_limit |-> {0, 1, 2},
      qb_offset |-> {-1, 0, 1}]

\* ----------------------------------------------------------- specifications
Recv == 1..Len(qsets)

QsNext ==
  \/ \E i \in Recv, kwargs \in Args.filter : QsFilter(i, kwargs) /\ UNCHANGED qbVars
  \/ \E i \in Recv, fields \in Args.options : QsOptions(i, fields) /\ UNCHANGED qbVars
  \/ \E i \in Recv, fields \in Args.order_by : QsOrderBy(i, fields) /\ UNCHANGED qbVars
  \/ \E i \in Recv, joins \in Args.joins, isouter \in BOOLEAN :
        QsJoin(i, joins, isouter) /\ UNCHANGED qbVars
  \/ \E i \in Recv, n \in Args.limit : QsLimit(i, n) /\ UNCHANGED qbVars
  \/ \E i \in Recv, n \in Args.offset : QsOffset(i, n) /\ UNCHANGED qbVars
  \/ \E i \in Recv, a \in Args.returning : QsReturning(i, a[1], a[2]) /\ UNCHANGED qbVars
  \/ \E i \in Recv, opts \in {{"populate_existing"}} :
        QsExecutionOptions(i, opts) /\ UNCHANGED qbVars
  \/ \E i \in Recv : QsAll(i) /\ UNCHANGED qbVars
  \/ \E i \in Recv : QsFirst(i) /\ UNCHANGED qbVars
  \/ \E i \in Recv : QsCount(i) /\ UNCHANGED qbVars
  \/ \E i \in Recv : QsExists(i) /\ UNCHANGED qbVars
  \/ \E i \in Recv : QsGetOneOrRaise(i) /\ UNCHANGED qbVars
  \/ \E i \in Recv : QsGetOneOrNone(i) /\ UNCHANGED qbVars
  \/ \E i \in Recv : QsGetOrCreate(i, Args.defaults, Args.lookup) /\ UNCHANGED qbVars
  \/ \E i \in Recv : QsUpdateOrCreate(i, Args.defaults, {}, Args.kwargs) /\ UNCHANGED qbVars
  \/ \E i \in Recv, a \in Args.in_bulk : QsInBulk(i, a[1], a[2]) /\ UNCHANGED qbVars
  \/ \E i \in Recv : QsDelete(i) /\ UNCHANGED qbVars
  \/ \E i \in Recv : QsUpdate(i, Args.values) /\ UNCHANGED qbVars

Builders == 1..Len(builders)

QbNext ==
  \/ QbConstruct /\ UNCHANGED qsVars
  \/ \E k \in Builders : QbClone(k) /\ UNCHANGED qsVars
  \/ \E k \in Builders, kwargs \in Args.qb_filter : QbFilter(k, kwargs) /\ UNCHANGED qsVars
  \/ \E k \in Builders, fields \in Args.qb_order_by : QbOrderBy(k, fields) /\ UNCHANGED qsVars
  \/ \E k \in Builders, fields \in Args.options : QbOptions(k, fields) /\ UNCHANGED qsVars
  \/ \E k \in Builders, fields \in Args.joins : QbOuterjoin(k, fields) /\ UNCHANGED qsVars
  \/ \E k \in Builders, n \in Args.qb_limit : QbLimit(k, n) /\ UNCHANGED qsVars
  \/ \E k \in Builders, n \in Args.qb_offset : QbOffset(k, n) /\ UNCHANGED qsVars
  \/ \E k \in Builders, a \in Args.returning : QbReturning(k, a[1], a[2]) /\ UNCHANGED qsVars
  \/ \E k \in Builders : QbBuildSelect(k) /\ UNCHANGED qsVars
  \/ \E k \in Builders : QbBuildCount(k) /\ UNCHANGED qsVars
  \/ \E k \in Builders : QbBuildDelete(k) /\ UNCHANGED qsVars
  \/ \E k \in Builders : QbBuildUpdate(k) /\ UNCHANGED qsVars

vars == <<qsVars, qbVars>>

Init == QsInit /\ QbInit

\* the QuerySet of repositories/queryset.py
Spec == Init /\ [][QsNext]_vars

\* the QueryBuilder of repositories/builder.py
SpecQB == Init /\ [][QbNext]_vars

\* --------------------------------------- BaseRepository (repositories/base.py)
\* an entity constructed by `src` as its n-th object, not yet a row
Instance(src, n, values) == [src |-> src, n |-> n, params |-> KwDict(values)]

\* session.flush of the pending entities S: each is inserted, in the order
\* they were added to the session
RECURSIVE SessionFlush(_, _, _, _)
SessionFlush(d, ses, S, done) ==
  IF S = {} THEN [db |-> d, session |-> ses, persisted |-> done]
  ELSE LET e == CHOOSE x \in S : \A y \in S : x.n <= y.n IN
       SessionFlush(Flushed(d, e.params), [ses EXCEPT !.new = @ \ {e}], S \ {e},
                    done \cup {e})

\* flush_or_commit testing `flush` alone first: `if flush: ... elif commit: ...`
FlushOrCommitFlushFirst(d, ses, objs, flush, commit) ==
  LET r == SessionFlush(d, ses,
                        IF flush /\ objs # <<>>
                        THEN {e \in ses.new : \E i \in 1..Len(objs) : objs[i] = e}
                        ELSE IF flush \/ commit THEN ses.new ELSE {},
                        {})
  IN [db |-> r.db, session |-> r.session, persisted |-> r.persisted,
      op |-> IF flush THEN "flush" ELSE IF commit THEN "commit" ELSE "none"]

\* flush_or_commit(*objs, session, flush, commit) (utils.py 37-49).
\* session.flush(objs) flushes the pending entities among objs, and with an
\* empty objs everything pending; session.commit() flushes everything pending
FlushOrCommit(d, ses, objs, flush, commit) ==
  LET r == SessionFlush(d, ses,
                        IF flush /\ ~commit /\ objs # <<>>
                        THEN {e \in ses.new : \E i \in 1..Len(objs) : objs[i] = e}
                        ELSE IF flush \/ commit THEN ses.new ELSE {},
                        {})
  IN [db |-> r.db, session |-> r.session, persisted |-> r.persisted,
      op |-> IF flush /\ ~commit THEN "flush" ELSE IF commit THEN "commit" ELSE "none"]

\* create (base.py 22-26): construct, session.add, flush_or_commit
CreateOf(d, ses, values, flush, commit) ==
  IF ~ValidParams(KwDict(values))
  THEN [err |-> "TypeError", objs |-> <<>>, db |-> d, session |-> ses, calls |-> <<>>]
  ELSE LET obj == Instance("create", Cardinality(d[RootModel]) + Cardinality(ses.new) + 1,
                           values)
           f == FlushOrCommit(d, [ses EXCEPT !.new = @ \cup {obj}], <<obj>>, flush, commit)
       IN [err |-> "ok", objs |-> <<obj>>, db |-> f.db, session |-> f.session,
           calls |-> <<[objs |-> <<obj>>, persisted |-> f.persisted, op |-> f.op]>>]

\* the while loop of bulk_create (base.py 36-39) from item k on: the batch is
\* constructed, flush_or_commit is called with the objects of the batches
\* before it, then the batch joins objs
RECURSIVE BatchLoop(_, _, _, _, _, _)
BatchLoop(st, values, b, k, flush, commit) ==
  IF k > Len(values) THEN st
  ELSE LET hi == IF k + b - 1 > Len(values) THEN Len(values) ELSE k + b - 1 IN
       IF \E i \in k..hi : ~ValidParams(KwDict(values[i])) THEN [st EXCEPT !.err = "TypeError"]
       ELSE LET f == FlushOrCommit(st.db, st.session, st.objs, flush, commit) IN
            BatchLoop([err |-> "ok",
                       objs |-> st.objs \o [i \in 1..(hi - k + 1) |->
                                              Instance("bulk_create", k + i - 1,
                                                       values[k + i - 1])],
                       db |-> f.db, session |-> f.session,
                       calls |-> Append(st.calls, [objs |-> st.objs, op |-> f.op,
                                                   persisted |-> f.persisted])],
                      values, b, hi + 1, flush, commit)

\* bulk_create (base.py 28-45)
BulkCreateOf(d, ses, values, batch_size, flush, commit) ==
  LET st == [err |-> "ok", objs |-> <<>>, db |-> d, session |-> ses, calls |-> <<>>] IN
  IF batch_size.type # "NoneType" /\ (batch_size.type # "int" \/ batch_size.n <= 0)
  THEN [st EXCEPT !.err = "ValueError"]
  ELSE IF batch_size.type = "int" /\ batch_size.n # 0
  THEN BatchLoop(st, values, batch_size.n, 1, flush, commit)
  ELSE IF \E i \in 1..Len(values) : ~ValidParams(KwDict(values[i]))
  THEN [st EXCEPT !.err = "TypeError"]
  ELSE LET objs == [i \in 1..Len(values) |-> Instance("bulk_create", i, values[i])]
           f == FlushOrCommit(d, ses, objs, flush, commit)
       IN [err |-> "ok", objs |-> objs, db |-> f.db, session |-> f.session,
           calls |-> <<[objs |-> objs, persisted |-> f.persisted, op |-> f.op]>>]

\* a call of the repository: its result, and the table and session it leaves
RepoCalled(op, r, arg) ==
  /\ db' = r.db
  /\ session' = r.session
  /\ last' = [NoLast EXCEPT !.op = op, !.err = r.err, !.rows = r.objs, !.calls = r.calls,
                            !.arg = arg]
  /\ UNCHANGED <<qsets, whereH, joinsH, optionsH, orderH>>

RepoCreate(values, flush, commit) ==
  \E r \in {CreateOf(db, session, values, flush, commit)} :
     /\ Cardinality(db[RootModel]) + Cardinality(session.new) < MaxRows
     /\ RepoCalled("create", r, <<values, flush, commit>>)

RepoBulkCreate(values, batch_size, flush, commit) ==
  \E r \in {BulkCreateOf(db, session, values, batch_size, flush, commit)} :
     RepoCalled("bulk_create", r, <<values, batch_size, flush, commit>>)

RepoNext ==
  \/ \E values \in Args.create_values, flush, commit \in BOOLEAN :
        RepoCreate(values, flush, commit) /\ UNCHANGED qbVars
  \/ \E values \in Args.bulk_values, batch_size \in Args.batch_size, flush, commit \in BOOLEAN :
        RepoBulkCreate(values, batch_size, flush, commit) /\ UNCHANGED qbVars

\* the BaseRepository of repositories/base.py
SpecRepo == Init /\ [][RepoNext]_vars

\* ------------------------- the lookup of a filter name (queryset.py 94-104)
\* lines 96-104 on one filter name: the lookup that is taken, the segments
\* left for the walk, and the ValueError of an unknown lookup.  `names` is
\* not read: the lines decide from the segments and the registry only
QsSelectLookup(attrs, names) ==
  /\ last' = [NoLast EXCEPT !.op = "lookup", !.arg = <<attrs, names>>,
                            !.rows = FilterAttrs(attrs),
                            !.mapping = {FilterLookup(attrs)},
                            !.err = IF FilterLookup(attrs) \in Lookups THEN "ok"
                                    ELSE "ValueError"]
  /\ UNCHANGED <<qsets, whereH, joinsH, optionsH, orderH, db, session>>

LookupNext ==
  \E attrs \in Args.filter_name, names \in Args.entity_names :
     QsSelectLookup(attrs, names) /\ UNCHANGED qbVars

SpecLookup == Init /\ [][LookupNext]_vars

\* ----------------------------------------------- get_session (dependencies.py)
\* One request after another runs through the generator get_session.  `last`
\* is the request: count its number, arg the position of the generator, rows
\* how the handler ended, err the exception in flight (at "done": the one that
\* is propagated), calls the session operations performed so far.
Request(n, pc, handler, err, calls) ==
  [NoLast EXCEPT !.op = "get_session", !.count = n, !.arg = <<pc>>, !.rows = handler,
                 !.err = err, !.calls = calls]

\* lines 5-7: session = session_factory(); yield session
GsOpen ==
  /\ last.op = "get_session" => last.arg = <<"done">>
  /\ last.count < MaxRequests
  /\ session' = [new |-> {}, dirty |-> {}]
  /\ last' = Request(last.count + 1, "yield", <<>>, "ok", <<>>)
  /\ UNCHANGED <<qsets, whereH, joinsH, optionsH, orderH, db>>

\* the request handler, between the yield and the resumption of the generator:
\* it creates an entity through the repository without flushing
\* (create(values, flush=False)), and then returns or raises
GsHandler(values, raises) ==
  \E r \in {CreateOf(db, session, values, FALSE, FALSE)} :
     /\ last.arg = <<"yield">>
     /\ Cardinality(db[RootModel]) < MaxRows
     /\ session' = r.session
     /\ last' = IF r.err # "ok" THEN Request(last.count, "except", <<"raised">>, r.err, <<>>)
                ELSE IF raises
                THEN Request(last.count, "except", <<"raised">>, "HandlerError", <<>>)
                ELSE Request(last.count, "commit", <<"returned">>, "ok", <<>>)
     /\ UNCHANGED <<qsets, whereH, joinsH, optionsH, orderH, db>>

\* get_session without its except clause: an exception of the commit goes
\* straight to the finally clause
GsCommitUncaught(fails) ==
  \E f \in {FlushOrCommit(db, session, <<>>, FALSE, TRUE)} :
     /\ last.arg = <<"commit">>
     /\ db' = IF fails THEN db ELSE f.db
     /\ session' = IF fails THEN session ELSE f.session
     /\ last' = Request(last.count, "finally", last.rows,
                        IF fails THEN "CommitError" ELSE "ok",
                        Append(last.calls, IF fails THEN "commit raised" ELSE "commit"))
     /\ UNCHANGED <<qsets, whereH, joinsH, optionsH, orderH>>

\* line 8: await session.commit(), which writes what is pending or raises
GsCommit(fails) ==
  \E f \in {FlushOrCommit(db, session, <<>>, FALSE, TRUE)} :
     /\ last.arg = <<"commit">>
     /\ db' = IF fails THEN db ELSE f.db
     /\ session' = IF fails THEN session ELSE f.session
     /\ last' = IF fails
                THEN Request(last.count, "except", last.rows, "CommitError",
                             Append(last.calls, "commit raised"))
                ELSE Request(last.count, "finally", last.rows, "ok",
                             Append(last.calls, "commit"))
     /\ UNCHANGED <<qsets, whereH, joinsH, optionsH, orderH>>

\* lines 9-11: except Exception as e: await session.rollback(); raise e
GsRollback ==
  /\ last.arg = <<"except">>
  /\ session' = [new |-> {}, dirty |-> {}]
  /\ last' = Request(last.count, "finally", last.rows, last.err, Append(last.calls, "rollback"))
  /\ UNCHANGED <<qsets, whereH, joinsH, optionsH, orderH, db>>

\* lines 12-13: finally: await session.close()
GsClose ==
  /\ last.arg = <<"finally">>
  /\ session' = [new |-> {}, dirty |-> {}]
  /\ last' = Request(last.count, "done", last.rows, last.err, Append(last.calls, "close"))
  /\ UNCHANGED <<qsets, whereH, joinsH, optionsH, orderH, db>>

GsNext ==
  \/ GsOpen /\ UNCHANGED qbVars
  \/ \E values \in Args.create_values, raises \in BOOLEAN :
        GsHandler(values, raises) /\ UNCHANGED qbVars
  \/ \E fails \in BOOLEAN : GsCommit(fails) /\ UNCHANGED qbVars
  \/ GsRollback /\ UNCHANGED qbVars
  \/ GsClose /\ UNCHANGED qbVars

SpecSession == Init /\ [][GsNext]_vars

\* ------------------------------------------------------------------ claims
\* what the statements of a QuerySet are meant to select: the root rows that
\* satisfy its conditions under its joins
MatchStmt(v) ==
  [EmptyStmt("select") EXCEPT !.joins = ChildJoins(v.nodes, v.outer),
                              !.where = {v.where[k] : k \in DOMAIN v.where}]

MatchingIds(d, v) == RootIds(SelectRows(d, MatchStmt(v)))

\* a set of integers in ascending order
RECURSIVE Ascending(_)
Ascending(S) ==
  IF S = {} THEN <<>>
  ELSE LET m == CHOOSE x \in S : \A y \in S : x <= y IN <<m>> \o Ascending(S \ {m})

Min(a, b) == IF a <= b THEN a ELSE b

ChainOps == {"filter", "order_by", "options", "outerjoin", "innerjoin", "limit", "offset",
             "returning", "execution_options"}

\* the receiver of the last call, as it is now
Receiver == View(qsets[last.recv])

\* C1: a chain call that returns a new QuerySet leaves the where set, join
\* tree, eager-load tree, ordering set, limit and offset of every QuerySet
\* that existed before the call (the receiver and the other branches) as they
\* were
C1_ChainCallFrame ==
  [][(last'.op \in ChainOps /\ last'.err = "ok")
       => \A i \in 1..Len(qsets) :
            [where |-> whereH'[qsets[i].where], nodes |-> joinsH'[qsets[i].joins].nodes,
             outer |-> joinsH'[qsets[i].joins].outer, options |-> optionsH'[qsets[i].options],
             ordering |-> orderH'[qsets[i].ordering], limit |-> qsets'[i].limit,
             offset |-> qsets'[i].offset, returning |-> qsets'[i].returning]
            = View(qsets[i])]_vars

\* C2: all() on a QuerySet with an eager-loaded relation and limit k >= 1
\* returns min(k, N) root entities, none of them twice, N being the number of
\* root rows that match the filters
C2_PaginatedRoots ==
  (last.op = "all" /\ Receiver.options # {} /\ Receiver.limit # {}
     /\ (\A k \in Receiver.limit : k >= 1) /\ Receiver.offset = {})
    => /\ last.err = "ok"
       /\ \A k \in Receiver.limit :
            Len(last.rows) = Min(k, Cardinality(MatchingIds(db, Receiver)))
       /\ \A m, n \in 1..Len(last.rows) : m # n => last.rows[m] # last.rows[n]

\* C4: delete() removes exactly the root rows that match the filters under the
\* joins, and update(values) writes the values to exactly those rows
C4_WriteExactlyMatching ==
  [][/\ last'.op = "delete"
         => db'[RootModel]
              = {r \in db[RootModel] : r.id \notin MatchingIds(db, View(qsets[last'.recv]))}
     /\ last'.op = "update"
         => db'[RootModel]
              = {IF r.id \in MatchingIds(db, View(qsets[last'.recv]))
                 THEN [c \in DOMAIN r |->
                         IF c \in DOMAIN Args.values THEN Args.values[c] ELSE r[c]]
                 ELSE r : r \in db[RootModel]}]_vars

\* C5: get_one_or_none() returns None when no root row matches, the entity
\* when one matches, and raises MultipleObjectsReturnedError when two or more
\* match
C5_GetOneOrNoneOutcomes ==
  last.op = "get_one_or_none"
    => LET ids == MatchingIds(db, Receiver) IN
       /\ Cardinality(ids) = 0 => last.err = "ok" /\ last.rows = <<>>
       /\ Cardinality(ids) = 1 => last.err = "ok" /\ last.rows = Ascending(ids)
       /\ Cardinality(ids) >= 2 => last.err = "MultipleObjectsReturnedError"

\* the keyword arguments without lookup separator
PlainKwargs(kwargs) == {p \in KwDict(kwargs) : Len(p.key) = 1}

\* C6: get_or_create returns (the entity, False) and flushes nothing when one
\* row matches filter(**kwargs); when none matches it flushes one new entity
\* built from the kwargs without lookup separator merged with defaults, and
\* returns (entity, True)
C6_GetOrCreate ==
  last.op = "get_or_create"
    => LET ids == MatchingIds(InitDb, Receiver) IN
       /\ Cardinality(ids) = 1
            => /\ last.err = "ok" /\ last.rows = Ascending(ids)
               /\ ~last.created /\ last.flushes = 0 /\ db = InitDb
       /\ Cardinality(ids) = 0
            => /\ last.err = "ok" /\ last.created /\ last.flushes = 1
               /\ db = Flushed(InitDb, {p \in PlainKwargs(last.arg) :
                                          ~\E x \in KwDict(Args.defaults) : x.key = p.key}
                                       \cup KwDict(Args.defaults))

\* C7: update_or_create on a found entity assigns every update default to it,
\* flushes the change and returns (entity, False); a created entity is
\* returned with created = True and without the update defaults applied on
\* top
C7_UpdateOrCreate ==
  last.op = "update_or_create"
    => LET ids == MatchingIds(InitDb, Receiver) IN
       /\ Cardinality(ids) = 1
            => /\ last.err = "ok" /\ last.rows = Ascending(ids) /\ ~last.created
               /\ \E id \in ids : [id |-> id, values |-> KwDict(last.arg)] \in session.dirty
               /\ last.flushes >= 1
       /\ Cardinality(ids) = 0
            => last.err = "ok" /\ last.created /\ session.dirty = {}

\* the rows a QuerySet selects: the matching roots in primary-key order, cut
\* by its offset and limit
Selected(d, v) == Page(Ascending(MatchingIds(d, v)), v.limit, v.offset)

\* C8: on a QuerySet whose limit and offset are valid, in_bulk([]) returns an
\* empty mapping and executes nothing; in_bulk(None) maps every row the
\* QuerySet selects; in_bulk(ids) maps exactly the selected rows whose field
\* value is in ids; every key is the field value of its entity
C8_InBulk ==
  (last.op = "in_bulk" /\ (\A n \in Receiver.limit : n >= 1)
     /\ (\A n \in Receiver.offset : n >= 0))
    => LET id_list == last.arg[1]
           rows == Selected(db, Receiver)
       IN IF id_list = {IdList({}, {})}
          THEN last.err = "ok" /\ last.mapping = {} /\ last.stmts = 0
          ELSE /\ last.err = "ok"
               /\ last.mapping = {<<rows[n], rows[n]>> : n \in 1..Len(rows)}

\* C9: count() returns the number of distinct root primary keys that satisfy
\* the filters under the joins
C9_CountDistinctRoots ==
  last.op \in {"count"}
    => last.err = "ok" /\ last.count = Cardinality(MatchingIds(db, Receiver))

\* C10: limit(n) with n < 1, offset(n) with n < 0 and returning(cols,
\* return_model=True) raise at the call, and no QuerySet holds a limit below 1
\* or an offset below 0
C10_ValidatedAtCall ==
  /\ (last.op = "limit" /\ last.arg < 1) => last.err # "ok"
  /\ (last.op = "offset" /\ last.arg < 0) => last.err # "ok"
  /\ (last.op = "returning" /\ last.arg[1] # <<>> /\ last.arg[2]) => last.err # "ok"
  /\ \A i \in 1..Len(qsets) : /\ \A n \in qsets[i].limit : n >= 1
                              /\ \A n \in qsets[i].offset : n >= 0

\* the option fields that calls of options() added to what __init__ put into
\* _options
RegisteredOptions(b) ==
  {b.options[n] : n \in 1..Len(b.options)}
    \ {NewBuilder(1).options[n] : n \in 1..Len(NewBuilder(1).options)}

\* C3: for a builder on which no eager-load path was registered,
\* build_select_stmt compiles one statement without subquery that carries the
\* builder's limit and offset
C3_SingleStatementPaged ==
  (qbLast.op = "build_select_stmt" /\ qbLast.err = "ok"
     /\ RegisteredOptions(builders[qbLast.recv]) = {})
    => /\ qbLast.stmt.subquery = {}
       /\ Truthy(builders[qbLast.recv].limit)
            => qbLast.stmt.limit = builders[qbLast.recv].limit
       /\ Truthy(builders[qbLast.recv].offset)
            => qbLast.stmt.offset = builders[qbLast.recv].offset

\* a dotted path has a segment that is neither a relationship nor a field of
\* the entity reached so far nor, for a filter path, a registered lookup in
\* last position
RECURSIVE HasUnknownSegment(_, _, _, _)
HasUnknownSegment(attrs, idx, model, filtering) ==
  IF idx > Len(attrs) THEN FALSE
  ELSE IF attrs[idx] \in DOMAIN Relationships(model)
  THEN HasUnknownSegment(attrs, idx + 1, Relationships(model)[attrs[idx]], filtering)
  ELSE IF attrs[idx] \in Columns(model)
  THEN HasUnknownSegment(attrs, idx + 1, model, filtering)
  ELSE ~(filtering /\ idx = Len(attrs) /\ attrs[idx] \in Lookups)

\* a dotted path has a segment that is no relationship of the entity reached
RECURSIVE HasNonRelationship(_, _, _)
HasNonRelationship(attrs, idx, model) ==
  /\ idx <= Len(attrs)
  /\ \/ attrs[idx] \notin DOMAIN Relationships(model)
     \/ HasNonRelationship(attrs, idx + 1, Relationships(model)[attrs[idx]])

\* C11: a call given a path with an unknown segment fails with the error class
\* of its mode: filter with InvalidFilteringFieldError, order_by with
\* InvalidOrderingFieldError, options (also for a path through a field) with
\* InvalidOptionFieldError, outerjoin / innerjoin with InvalidJoinFieldError
C11_ModeErrorClass ==
  /\ (last.op = "filter"
        /\ \E n \in 1..Len(last.arg) : HasUnknownSegment(last.arg[n].name, 1, RootModel, TRUE))
       => last.err = "InvalidFilteringFieldError"
  /\ (last.op = "order_by"
        /\ \E n \in 1..Len(last.arg) : HasUnknownSegment(last.arg[n].path, 1, RootModel, FALSE))
       => last.err = "InvalidOrderingFieldError"
  /\ (last.op = "options"
        /\ \E n \in 1..Len(last.arg) : HasNonRelationship(last.arg[n], 1, RootModel))
       => last.err = "InvalidOptionFieldError"
  /\ (last.op \in {"outerjoin", "innerjoin"}
        /\ \E n \in 1..Len(last.arg) : HasUnknownSegment(last.arg[n], 1, RootModel, FALSE))
       => last.err = "InvalidJoinFieldError"

\* a filter path without its trailing lookup
Stem(attrs) ==
  IF Len(attrs) > 1 /\ attrs[Len(attrs)] \in Lookups
  THEN SubSeq(attrs, 1, Len(attrs) - 1) ELSE attrs

\* what a dotted path consists of: whether some segment is unknown, how many
\* segments are fields, and whether the last segment is a relationship
RECURSIVE PathShape(_, _, _, _)
PathShape(attrs, idx, model, sh) ==
  IF idx > Len(attrs) THEN sh
  ELSE IF attrs[idx] \in DOMAIN Relationships(model)
  THEN PathShape(attrs, idx + 1, Relationships(model)[attrs[idx]],
                 [sh EXCEPT !.ends_in_rel = TRUE])
  ELSE IF attrs[idx] \in Columns(model)
  THEN PathShape(attrs, idx + 1, model, [sh EXCEPT !.fields = @ + 1, !.ends_in_rel = FALSE])
  ELSE [sh EXCEPT !.unknown = TRUE]

ShapeOf(attrs) ==
  PathShape(Stem(attrs), 1, RootModel, [unknown |-> FALSE, fields |-> 0, ends_in_rel |-> FALSE])

\* C12: filter on a path whose last non-lookup segment is a relationship fails
\* with ColumnNotFoundError, filter on a path that names more than one field
\* fails with the error for ambiguous columns, and neither records a condition
C12_ExactlyOneColumn ==
  (qbLast.op = "filter" /\ Len(qbLast.arg) = 1 /\ ~ShapeOf(qbLast.arg[1].name).unknown)
    => LET sh == ShapeOf(qbLast.arg[1].name)
           recorded == qbLast.arg[1].name \in DOMAIN builders[qbLast.recv].where
       IN /\ (sh.ends_in_rel /\ sh.fields <= 1)
               => qbLast.err = "ColumnNotFoundError" /\ ~recorded
          /\ (sh.fields > 1 /\ ~sh.ends_in_rel)
               => qbLast.err \notin {"ok", "ColumnNotFoundError"} /\ ~recorded

\* the nodes of a join tree that stand for a relationship (the dicts under the
\* "children" key are containers), and the relationship path a node stands for
RelNodes(nodes) == {n \in nodes : n[Len(n)] # <<"str", "children">>}

RelPath(n) ==
  IF n[1][1] = "str" THEN [i \in 1..(Len(n) \div 2) |-> n[2 * i][2]]
  ELSE [i \in 1..Len(n) |-> n[i][2]]

\* C13: whatever filter, order_by, options and join calls were made, every
\* relationship path is represented by exactly one node of the join tree
C13_OneNodePerPath ==
  \A r \in 1..MaxQS : \A a, b \in RelNodes(joinsH[r].nodes) : RelPath(a) = RelPath(b) => a = b

\* list(self._ordering_fields): the expressions of the set in the order the
\* set iterates them.  The expressions hash by identity, so the build can
\* produce every arrangement of the set's entries
ListOf(b) ==
  {s \in [1..BagSizeOf(b, DOMAIN b) -> DOMAIN b] :
     \A e \in DOMAIN b : Cardinality({i \in DOMAIN s : s[i] = e}) = b[e]}

\* a sequence without its repeated elements, each kept at its first position
RECURSIVE Dedup(_)
Dedup(s) ==
  IF s = <<>> THEN <<>>
  ELSE LET d == Dedup(SubSeq(s, 1, Len(s) - 1)) IN
       IF \E i \in DOMAIN d : d[i] = s[Len(s)] THEN d ELSE Append(d, s[Len(s)])

\* the ordering expressions of the tokens of one order_by call, in call order
SuppliedOrder(fields) ==
  [n \in DOMAIN fields |->
     LET c == OrderWalk(fields[n].path, 1, RootModel, <<>>, <<>>, {}).column
     IN OrderExpr(c[1], c[2], fields[n].sign = "-")]

\* C14: an order_by call leaves the ORDER BY of the compiled select as it was
\* before the call, followed by the expressions of the call's tokens in the
\* order they were supplied, a repeated expression staying at its first place
C14_OrderByInSuppliedOrder ==
  [][(last'.op = "order_by" /\ last'.err = "ok")
       => LET r == qsets'[last'.new].ordering IN
          \A after \in ListOf(orderH'[r]) : \E before \in ListOf(orderH[r]) :
             Dedup(after) = Dedup(before \o SuppliedOrder(last'.arg))]_vars

\* C15: outerjoin on relationship paths flags exactly the node of each path
\* as outer and leaves every other node's flag as it was; filter, order_by and
\* options change no node's flag
C15_OuterOnlyWhereRequested ==
  [][LET t0 == childrenH[builders[qbLast'.recv].joins]
         t1 == childrenH'[builders[qbLast'.recv].joins]
     IN /\ (/\ qbLast'.op = "outerjoin"
            /\ \A n \in 1..Len(qbLast'.arg) : ~HasNonRelationship(qbLast'.arg[n], 1, RootModel))
              => \A p \in DOMAIN t1 :
                   (t1[p].outer # {}) <=> \/ \E n \in 1..Len(qbLast'.arg) : qbLast'.arg[n] = p
                                          \/ p \in DOMAIN t0 /\ t0[p].outer # {}
        /\ qbLast'.op \in {"filter", "order_by", "options"}
              => \A p \in DOMAIN t0 : t1[p].outer = t0[p].outer]_vars

\* a filter keyword whose path, lookup removed, is relationships followed by
\* one field
ResolvesToOneColumn(kw) ==
  LET sh == ShapeOf(kw.name) IN ~sh.unknown /\ sh.fields = 1 /\ ~sh.ends_in_rel

\* C16: a filter call whose keywords all resolve, one of them with a key the
\* where dict already holds, does not fail; afterwards each key of the call
\* holds the condition built from the call's value and every other key holds
\* the condition it held before
C16_SecondWriteWins ==
  [][LET r == qsets[last'.recv].where
         names == {last'.arg[n].name : n \in 1..Len(last'.arg)}
     IN (/\ last'.op = "filter"
         /\ \A n \in 1..Len(last'.arg) : ResolvesToOneColumn(last'.arg[n])
         /\ names \cap DOMAIN whereH[r] # {})
          => /\ last'.err = "ok"
             /\ DOMAIN whereH'[r] = DOMAIN whereH[r] \cup names
             /\ \A n \in 1..Len(last'.arg) :
                  /\ whereH'[r][last'.arg[n].name].value = last'.arg[n].value
                  /\ whereH'[r][last'.arg[n].name].ids = last'.arg[n].ids
             /\ \A k \in DOMAIN whereH[r] \ names : whereH'[r][k] = whereH[r][k]]_vars

\* filter(name='Y') went through on a where dict that held the key `name`,
\* logged the warning, and the dict holds the condition on 'Y'
C16_Witness ==
  /\ last.op = "filter" /\ last.err = "ok" /\ last.warned = {<<"name">>}
  /\ last.arg[1].value = {"Y"}
  /\ whereH[qsets[last.new].where][<<"name">>].value = {"Y"}

\* C17: bulk_create with a batch_size that is not a positive integer raises
\* ValueError and creates nothing; otherwise it returns one entity per item in
\* input order, every entity is in the session or persisted, with flush or
\* commit every entity is persisted by one of the calls, and no call persists
\* more than batch_size of them
C17_BulkCreate ==
  last.op = "bulk_create" =>
    LET values == last.arg[1]
        b == last.arg[2]
        persisted == UNION {last.calls[j].persisted : j \in 1..Len(last.calls)}
        objs == {last.rows[i] : i \in 1..Len(last.rows)}
    IN IF b.type # "NoneType" /\ ~(b.type = "int" /\ b.n > 0)
       THEN last.err = "ValueError" /\ last.rows = <<>> /\ last.calls = <<>>
       ELSE /\ last.err = "ok"
            /\ Len(last.rows) = Len(values)
            /\ \A i \in 1..Len(values) : last.rows[i].params = KwDict(values[i])
            /\ objs \subseteq session.new \cup persisted
            /\ (last.arg[3] \/ last.arg[4]) => objs \subseteq persisted
            /\ b.type = "int"
                 => \A j \in 1..Len(last.calls) :
                      Cardinality(last.calls[j].persisted \cap objs) <= b.n

\* C18: a builder and its clone share no mutable structure: the "children"
\* dict that holds the join tree of one builder is not the dict of another
C18_CloneSharesNothing ==
  \A k, j \in 1..Len(builders) : k # j => builders[k].joins # builders[j].joins

\* C19: a select compiled from a builder with eager-load paths, orderings and
\* a limit or offset carries the builder's orderings, in their order, inside
\* the subquery that carries the limit and offset
C19_OrderInsideSubquery ==
  LET b == builders[qbLast.recv] IN
  (/\ qbLast.op = "build_select_stmt" /\ qbLast.stmt.err = "ok"
   /\ b.options # <<>> /\ b.order_by # <<>>
   /\ (Truthy(b.limit) \/ Truthy(b.offset)))
    => \E sub \in qbLast.stmt.subquery :
         /\ sub.limit = b.limit /\ sub.offset = b.offset
         /\ Len(sub.order) >= Len(b.order_by)
         /\ \A i \in 1..Len(b.order_by) : sub.order[i] = b.order_by[i].val.of

\* C20: every condition and every ordering expression a QuerySet holds is on
\* a column of the root entity or of an entity the compiled select joins
C20_RecordedEntitiesJoined ==
  \A i \in 1..Len(qsets) :
    LET v == View(qsets[i])
        joined == {RootModel} \cup {ModelAt(RootModel, j.path) : j \in Query(v).stmt.joins}
    IN /\ \A k \in DOMAIN v.where : v.where[k].model \in joined
       /\ \A e \in DOMAIN v.ordering : e.model \in joined

\* C21: the final segment of a filter path is taken as a lookup only when it
\* is not a field or relationship name of the entity the preceding segments
\* reach and is a registered lookup; a final segment that names a field of
\* that entity and also a registered lookup stays in the path and is compared
\* with exact
C21_FieldBeforeLookup ==
  \* the segment before the last is the relationship `status`, and the last
  \* one does not repeat it
  last.op = "lookup" /\ last.arg[1][Len(last.arg[1]) - 1] = "status"
                     /\ last.arg[1][Len(last.arg[1])] # "status" =>
    LET attrs == last.arg[1]
        names == last.arg[2]
        n == Len(attrs)
        taken == Len(last.rows) < n
    IN /\ taken => attrs[n] \notin names /\ attrs[n] \in Lookups
       /\ attrs[n] \in names /\ attrs[n] \in Lookups =>
            last.rows = attrs /\ last.mapping = {"exact"} /\ last.err = "ok"

\* C22: the outer flag outerjoin writes is the flag every compiler reads: a
\* statement compiled right after outerjoin(paths) on the same builder, of
\* whichever kind, joins every one of the paths as an outer join, and joins as
\* outer only nodes that carry a flag
C22_FlagWrittenIsFlagRead ==
  [][(/\ qbLast.op = "outerjoin"
      /\ \A n \in 1..Len(qbLast.arg) : ~HasNonRelationship(qbLast.arg[n], 1, RootModel)
      /\ qbLast'.op \in {"build_select_stmt", "build_count_stmt", "build_delete_stmt",
                         "build_update_stmt"}
      /\ qbLast'.recv = qbLast.recv)
       => /\ qbLast'.err = "ok"
          /\ \A n \in 1..Len(qbLast.arg) :
               \E j \in qbLast'.stmt.joins : j.path = qbLast.arg[n] /\ j.isouter
          /\ \A j \in qbLast'.stmt.joins :
               j.isouter => childrenH[builders[qbLast.recv].joins][j.path].outer # {}]_vars

\* C23: in the select statement of every QuerySet, a segment of an eager-load
\* path is loaded with contains_eager exactly when the statement joins that
\* path, and with joinedload otherwise
C23_ContainsEagerIffJoined ==
  \A i \in 1..Len(qsets) :
    LET c == Query(View(qsets[i])) IN
    c.err = "ok" =>
      \A chain \in c.stmt.options : \A n \in 1..Len(chain) :
        (chain[n].loader = "contains_eager")
          <=> \E j \in c.stmt.joins : j.path = [k \in 1..n |-> chain[k].relation[2]]

\* C24: get_one_or_none() executes exactly one statement, the select, and
\* its outcome follows from the rows of that select: an exception of the
\* count statement is never its outcome
C24_OneStatement ==
  last.op = "get_one_or_none"
    => /\ last.stmts = 1
       /\ last.err # "ok" => last.err # CountOf(db, Receiver).err

\* C25: a QueryBuilder that was just constructed holds no condition, no join
\* node, no eager-load path, no ordering, no limit, no offset and no returning
\* columns, and the select statement compiled from it is unfiltered, unjoined
\* and unordered
C25_FreshBuilderEmpty ==
  qbLast.op = "__init__"
    => LET b == builders[qbLast.recv]
           stmt == BuildSelectStmt(b, childrenH[b.joins])
       IN /\ DOMAIN b.where = {} /\ DOMAIN childrenH[b.joins] = {}
          /\ b.options = <<>> /\ b.order_by = <<>>
          /\ b.limit = {} /\ b.offset = {} /\ b.returning = <<>>
          /\ stmt.err = "ok" /\ stmt.where = {} /\ stmt.joins = {} /\ stmt.order = <<>>

\* C26: a chain call that raises leaves no trace: the conditions and the join
\* tree of its receiver are after the call what they were before it
C26_RaisingCallLeavesNoTrace ==
  [][(last'.op \in ChainOps /\ last'.err # "ok")
       => /\ whereH'[qsets[last'.recv].where] = whereH[qsets[last'.recv].where]
          /\ joinsH'[qsets[last'.recv].joins] = joinsH[qsets[last'.recv].joins]]_vars

\* C27: every state a QueryBuilder reaches through its chain methods can be
\* compiled: a compilation, of whichever statement kind, ends without an
\* exception
C27_EveryStateCompiles == Built => qbLast.err = "ok"

C29_EvaluationFrame ==
  [][last'.op \in {"all", "first", "count", "exists"}
       => /\ Len(qsets') = Len(qsets)
          /\ \A i \in 1..Len(qsets) :
               LET after == [where |-> whereH'[qsets'[i].where],
                             nodes |-> joinsH'[qsets'[i].joins].nodes,
                             outer |-> joinsH'[qsets'[i].joins].outer,
                             options |-> optionsH'[qsets'[i].options],
                             ordering |-> orderH'[qsets'[i].ordering],
                             limit |-> qsets'[i].limit, offset |-> qsets'[i].offset,
                             returning |-> qsets'[i].returning]
               IN after = View(qsets[i]) /\ Query(after) = Query(View(qsets[i]))]_vars

\* all() has answered with rows from a QuerySet that holds a condition and a
\* join node
C29_Witness ==
  /\ last.op = "all" /\ last.err = "ok" /\ last.rows # <<>>
  /\ DOMAIN Receiver.where # {} /\ Receiver.nodes # {}

\* C30: every call of flush_or_commit that create / bulk_create make performs
\* one session operation at most: a commit when commit is true, whatever
\* flush is; a flush, of the objects it was given only, when flush is true and
\* commit is false; and nothing when both are false.  So nothing is committed
\* unless commit = TRUE was passed
C30_FlushOrCommit ==
  last.op \in {"create", "bulk_create"} =>
    LET flush == last.arg[Len(last.arg) - 1]
        commit == last.arg[Len(last.arg)]
    IN \A j \in 1..Len(last.calls) :
         LET c == last.calls[j] IN
         /\ c.op = (IF commit THEN "commit" ELSE IF flush THEN "flush" ELSE "none")
         /\ c.op = "none" => c.persisted = {}
         \* session.flush(objs) with no objects is a flush of the whole session
         /\ c.op = "flush" /\ c.objs # <<>>
              => \A e \in c.persisted : \E i \in 1..Len(c.objs) : c.objs[i] = e
         /\ c.op = "commit" => session.new = {}

\* create(values, flush=True, commit=True) has committed, and the commit wrote
\* an entity that was pending from an earlier call as well
C30_Witness ==
  /\ last.op = "create" /\ last.err = "ok" /\ last.arg[2] /\ last.arg[3]
  /\ last.calls[1].op = "commit"
  /\ Cardinality(last.calls[1].persisted) >= 2

=============================================================================
